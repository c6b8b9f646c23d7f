------------------------------ MODULE PanelProofs ------------------------------
(***************************************************************************)
(* Proofs about Views and Panel, for every database, every size of rows,   *)
(* runs and pages, and however the user scrolls and jumps.                 *)
(*                                                                         *)
(* From the bottom: induction over the turns of a loop; what IDA's lookups *)
(* find; what the loops of hex_view and linear_view list, by an invariant  *)
(* and a variant for each; Ahead and Behind, all that the panel needs of a *)
(* page; that a panel which appends and prepends such pages shows one      *)
(* stretch of the database; and the scan of the overview.                  *)
(***************************************************************************)
EXTENDS Panel, SequenceTheorems, WellFoundedInduction, TLAPS

-----------------------------------------------------------------------------
(* Induction, on a set; and loops. *)

\* A non-empty set of naturals has a least element.
LEMMA LeastNatural ==
  ASSUME NEW T \in SUBSET Nat, T # {}
  PROVE  \E n \in T : \A m \in T : n <= m
<1> DEFINE less == {ss \in Nat \X Nat : ss[1] < ss[2]}
<1>1. IsWellFoundedOn(less, Nat)
  BY NatLessThanWellFounded DEF OpToRel
<1>2. \E n \in T : \A m \in T : <<m, n>> \notin less
  BY <1>1, WFMin
<1>3. \A m, n \in T : <<m, n>> \notin less => n <= m
  OBVIOUS
<1> HIDE DEF less
<1> QED
  BY <1>2, <1>3

\* A set that contains 0, and with every number the next, contains them all.
LEMMA Induction ==
  ASSUME NEW T, 0 \in T, \A n \in Nat : n \in T => n + 1 \in T
  PROVE  \A n \in Nat : n \in T
<1>1. SUFFICES ASSUME Nat \ T # {} PROVE FALSE
  OBVIOUS
<1>2. PICK n \in Nat \ T : \A m \in Nat \ T : n <= m
  BY <1>1, LeastNatural
<1>3. n # 0 /\ n - 1 \in Nat
  OBVIOUS
<1>4. n - 1 \in T
  BY <1>2, <1>3
<1> QED
  BY <1>3, <1>4

\* g holds the first n turns of a loop.
Begins(g, n, turn, from) ==
  /\ g[0] = from
  /\ \A k \in 1..n : g[k] = turn[g[k - 1]]

\* A loop can be followed for any number of turns.
LEMMA BeginsExists ==
  ASSUME NEW turn, NEW from
  PROVE  \A n \in Nat : \E g : Begins(g, n, turn, from)
<1> DEFINE T == {n \in Nat : \E g : Begins(g, n, turn, from)}
<1>1. 0 \in T
  <2> DEFINE g == [k \in 0..0 |-> from]
  <2>1. Begins(g, 0, turn, from)
    BY DEF Begins
  <2> QED
    BY <2>1
<1>2. ASSUME NEW n \in Nat, n \in T PROVE n + 1 \in T
  <2>1. PICK g : Begins(g, n, turn, from)
    BY <1>2
  <2> DEFINE h == [k \in 0..n + 1 |-> IF k <= n THEN g[k] ELSE turn[g[n]]]
  <2>2. h[0] = from
    BY <2>1 DEF Begins
  <2>3. ASSUME NEW k \in 1..n + 1 PROVE h[k] = turn[h[k - 1]]
    <3>1. CASE k = n + 1
      BY <3>1
    <3>2. CASE k # n + 1
      BY <2>1, <3>2 DEF Begins
    <3> QED
      BY <3>1, <3>2
  <2> HIDE DEF h
  <2>4. Begins(h, n + 1, turn, from)
    BY <2>2, <2>3 DEF Begins
  <2> QED
    BY <2>4
<1> HIDE DEF T
<1>3. \A n \in Nat : n \in T
  BY <1>1, <1>2, Induction
<1> QED
  BY <1>3 DEF T

\* And in one way only.
LEMMA BeginningsAgree ==
  ASSUME NEW turn, NEW from
  PROVE  \A k \in Nat : \A m, n \in Nat : \A g, h :
           k <= m /\ k <= n /\ Begins(g, m, turn, from) /\ Begins(h, n, turn, from) => g[k] = h[k]
<1> DEFINE Agree(k) == \A m, n \in Nat : \A g, h :
             k <= m /\ k <= n /\ Begins(g, m, turn, from) /\ Begins(h, n, turn, from) => g[k] = h[k]
           T == {k \in Nat : Agree(k)}
<1>1. Agree(0)
  BY DEF Begins
<1>2. ASSUME NEW k \in Nat, Agree(k) PROVE Agree(k + 1)
  <2> SUFFICES ASSUME NEW m \in Nat, NEW n \in Nat, NEW g, NEW h, k + 1 <= m, k + 1 <= n,
                      Begins(g, m, turn, from), Begins(h, n, turn, from)
               PROVE  g[k + 1] = h[k + 1]
    OBVIOUS
  <2>1. g[k] = h[k]
    <3>1. k <= m /\ k <= n
      OBVIOUS
    <3> QED
      BY <1>2, <3>1 DEF Agree
  <2>2. k + 1 \in 1..m /\ k + 1 \in 1..n /\ (k + 1) - 1 = k
    OBVIOUS
  <2> QED
    BY <2>1, <2>2 DEF Begins
<1> HIDE DEF Agree
<1>3. 0 \in T /\ \A n \in Nat : n \in T => n + 1 \in T
  BY <1>1, <1>2
<1> HIDE DEF T
<1>4. \A n \in Nat : n \in T
  BY <1>3, Induction
<1> QED
  BY <1>4 DEF T, Agree

\* What a loop does: its first turn starts where it starts, the next where one ended.
LEMMA LoopTurns ==
  ASSUME NEW turn, NEW from
  PROVE  /\ Loop(turn, from)[0] = from
         /\ \A n \in Nat : Loop(turn, from)[n + 1] = turn[Loop(turn, from)[n]]
<1> DEFINE B(n) == CHOOSE g : Begins(g, n, turn, from)
           f == [n \in Nat |-> B(n)[n]]
           P(g) == g = [n \in Nat |-> IF n = 0 THEN from ELSE turn[g[n - 1]]]
<1>1. \A n \in Nat : Begins(B(n), n, turn, from)
  BY BeginsExists
<1> HIDE DEF B
<1>2. \A n \in Nat : f[n] = IF n = 0 THEN from ELSE turn[f[n - 1]]
  <2> SUFFICES ASSUME NEW n \in Nat PROVE f[n] = IF n = 0 THEN from ELSE turn[f[n - 1]]
    OBVIOUS
  <2>1. CASE n = 0
    BY <1>1, <2>1 DEF Begins
  <2>2. CASE n # 0
    <3>1. n - 1 \in Nat /\ n \in 1..n /\ n - 1 <= n
      BY <2>2
    <3>2. B(n)[n] = turn[B(n)[n - 1]]
      BY <1>1, <3>1 DEF Begins
    <3>3. B(n)[n - 1] = B(n - 1)[n - 1]
      BY <1>1, <3>1, BeginningsAgree
    <3> QED
      BY <2>2, <3>1, <3>2, <3>3
  <2> QED
    BY <2>1, <2>2
<1>3. P(f)
  <2> HIDE DEF f
  <2>1. f = [n \in Nat |-> f[n]]
    BY DEF f
  <2> QED
    BY <1>2, <2>1
<1> HIDE DEF f
<1> DEFINE at == CHOOSE g : P(g)
<1>4. P(at)
  BY <1>3
<1>5. at = Loop(turn, from)
  BY DEF Loop
<1> HIDE DEF at
<1>6. at[0] = from
  BY <1>4
<1>7. \A n \in Nat : at[n + 1] = turn[at[n]]
  BY <1>4
<1> QED
  BY <1>5, <1>6, <1>7

\* A loop's invariant holds after every turn.
LEMMA LoopInvariant ==
  ASSUME NEW I, NEW turn, NEW from \in I, \A s \in I : turn[s] \in I
  PROVE  \A n \in Nat : Loop(turn, from)[n] \in I
<1> DEFINE at == Loop(turn, from)
           T  == {n \in Nat : at[n] \in I}
<1>1. at[0] = from /\ \A n \in Nat : at[n + 1] = turn[at[n]]
  BY LoopTurns
<1> HIDE DEF at
<1>2. 0 \in T /\ \A n \in Nat : n \in T => n + 1 \in T
  BY <1>1
<1> HIDE DEF T
<1>3. \A n \in Nat : n \in T
  BY <1>2, Induction
<1> QED
  BY <1>3 DEF T, at

\* In I, a variant grows from turn to turn, and stays below a bound, until Over.
Progresses(I, turn, Over, variant, bound) ==
  /\ variant \in [I -> Int]
  /\ \A s \in I : turn[s] \in I /\ (s \in Over => turn[s] \in Over)
  /\ \A s \in I : s \notin Over =>
       variant[s] < bound /\ (turn[s] \notin Over => variant[turn[s]] > variant[s])

\* Such a loop is over after as many turns.
LEMMA LoopEnds ==
  ASSUME NEW I, NEW turn, NEW from \in I, NEW Over, NEW variant, NEW bound \in Nat,
         Progresses(I, turn, Over, variant, bound), from \in Over \/ variant[from] >= 0
  PROVE  Loop(turn, from)[bound] \in I \cap Over
<1> USE DEF Progresses
<1> DEFINE at == Loop(turn, from)
           T  == {n \in Nat : at[n] \in Over \/ variant[at[n]] >= n}
<1>1. at[0] = from /\ \A n \in Nat : at[n + 1] = turn[at[n]]
  BY LoopTurns
<1>2. \A n \in Nat : at[n] \in I
  BY LoopInvariant
<1> HIDE DEF at
<1>3. 0 \in T
  BY <1>1
<1>4. ASSUME NEW n \in Nat, n \in T PROVE n + 1 \in T
  <2> DEFINE s == at[n]
  <2>1. s \in I /\ turn[s] \in I /\ at[n + 1] = turn[s]
    BY <1>1, <1>2
  <2>2. s \in Over \/ variant[s] >= n
    BY <1>4
  <2>3. variant[s] \in Int /\ variant[turn[s]] \in Int
    BY <2>1
  <2> HIDE DEF s
  <2>4. turn[s] \in Over \/ variant[turn[s]] >= n + 1
    BY <2>1, <2>2, <2>3
  <2> QED
    BY <2>1, <2>4
<1> HIDE DEF T
<1>5. bound \in T
  BY <1>3, <1>4, Induction
<1> QED
  BY <1>2, <1>5 DEF T, at

-----------------------------------------------------------------------------
(* IDA's lookups, in a database that is well formed. *)

\* The database is one.
Valid == WellFormed(segments, items, funcs)

\* Least and Greatest, of a set of addresses.
LEMMA LeastIs ==
  ASSUME NEW S \in SUBSET Nat
  PROVE  /\ S = {} => Least(S) = BADADDR
         /\ S # {} => Least(S) \in S /\ \A y \in S : Least(S) <= y
<1>1. ASSUME S # {} PROVE Least(S) \in S /\ \A y \in S : Least(S) <= y
  <2>1. \E x \in S : \A y \in S : x <= y
    BY <1>1, LeastNatural
  <2> QED
    BY <1>1, <2>1 DEF Least
<1> QED
  BY <1>1 DEF Least

\* The same for the greatest, of a bounded set.
LEMMA GreatestIs ==
  ASSUME NEW n \in Nat, NEW S \in SUBSET (0..n)
  PROVE  /\ S = {} => Greatest(S) = BADADDR
         /\ S # {} => Greatest(S) \in S /\ \A y \in S : y <= Greatest(S)
<1>1. ASSUME S # {} PROVE Greatest(S) \in S /\ \A y \in S : y <= Greatest(S)
  <2> DEFINE D == {n - x : x \in S}
  <2>1. D \in SUBSET Nat /\ D # {}
    <3>1. \A x \in S : x \in 0..n /\ n - x \in Nat
      OBVIOUS
    <3>2. PICK x \in S : TRUE
      BY <1>1
    <3>3. n - x \in D
      OBVIOUS
    <3> QED
      BY <3>1, <3>3
  <2>2. PICK d \in D : \A e \in D : d <= e
    <3> HIDE DEF D
    <3> QED
      BY <2>1, LeastNatural
  <2>3. PICK x \in S : d = n - x
    BY <2>2
  <2>4. \A y \in S : y <= x
    <3> SUFFICES ASSUME NEW y \in S PROVE y <= x
      OBVIOUS
    <3>1. n - y \in D
      OBVIOUS
    <3>2. n - x <= n - y
      BY <2>2, <2>3, <3>1
    <3> QED
      BY <3>2
  <2> QED
    BY <1>1, <2>4 DEF Greatest
<1> QED
  BY <1>1 DEF Greatest

\* Segments are not empty, and between the first address and the last.
LEMMA Segments ==
  ASSUME Valid
  PROVE  /\ MaxAddr \in Nat /\ Len(segments) \in Nat \ {0}
         /\ \A i \in 1..Len(segments) :
              /\ segments[i].first \in Nat /\ segments[i].end \in Nat
              /\ segments[i].first < segments[i].end /\ segments[i].end <= MaxAddr
              /\ min_ea <= segments[i].first /\ segments[i].end <= max_ea
         /\ \A i, j \in 1..Len(segments) : i < j => segments[i].end <= segments[j].first
         /\ min_ea \in Nat /\ max_ea \in Nat /\ max_ea <= MaxAddr
<1> USE ViewAssumption
<1> DEFINE n == Len(segments)
<1>1. segments \in Seq([first : Nat, end : Nat]) /\ segments # << >>
  BY DEF Valid, WellFormed
<1>2. n \in Nat \ {0}
  BY <1>1, LenProperties, EmptySeq
<1>3. \A i \in 1..n : segments[i] \in [first : Nat, end : Nat]
  BY <1>1, ElementOfSeq
<1>4. \A i \in 1..n : segments[i].first < segments[i].end /\ segments[i].end <= MaxAddr
  BY DEF Valid, WellFormed
<1>5. \A i, j \in 1..n : i < j => segments[i].end <= segments[j].first
  BY DEF Valid, WellFormed
<1>6. 1 \in 1..n /\ n \in 1..n
  BY <1>2
<1> HIDE DEF n
<1>7. \A i \in 1..n : segments[1].first <= segments[i].first
  BY <1>2, <1>3, <1>4, <1>5, <1>6
<1>8. \A i \in 1..n : segments[i].end <= segments[n].end
  BY <1>2, <1>3, <1>4, <1>5, <1>6
<1>9. min_ea = segments[1].first /\ max_ea = segments[n].end
  BY DEF min_ea, max_ea, n
<1> QED
  BY <1>2, <1>3, <1>4, <1>5, <1>6, <1>7, <1>8, <1>9 DEF n

\* A mapped byte lies between the ends of the database.
LEMMA Mapped ==
  ASSUME Valid, NEW a \in Int, in_segment(a)
  PROVE  a \in Address /\ min_ea <= a /\ a < max_ea
BY Segments DEF in_segment, Address

\* After a gap the next segment begins.
LEMMA NextSegment ==
  ASSUME Valid, NEW a \in Int, ~in_segment(a)
  PROVE  LET n == get_next_seg(a) IN
         /\ n = BADADDR => \A b \in Int : a <= b => ~in_segment(b)
         /\ n # BADADDR => /\ n \in Address /\ a < n /\ in_segment(n)
                           /\ \E i \in 1..Len(segments) : segments[i].first = n
                           /\ \A b \in Int : a <= b /\ b < n => ~in_segment(b)
<1> DEFINE S == {segments[i].first : i \in {j \in 1..Len(segments) : segments[j].first > a}}
           n == Least(S)
<1>1. S \in SUBSET Nat
  BY Segments
<1>2. ASSUME NEW b \in Int, a <= b, in_segment(b)
      PROVE  \E i \in 1..Len(segments) : segments[i].first > a /\ segments[i].first <= b
  <2>1. PICK i \in 1..Len(segments) : segments[i].first <= b /\ b < segments[i].end
    BY <1>2 DEF in_segment
  <2>2. segments[i].first > a
    BY <1>2, <2>1, Segments DEF in_segment
  <2> QED
    BY <2>1, <2>2
<1>3. ASSUME S = {} PROVE n = BADADDR /\ \A b \in Int : a <= b => ~in_segment(b)
  <2>1. \A i \in 1..Len(segments) : ~(segments[i].first > a)
    BY <1>3
  <2>2. n = BADADDR
    BY <1>1, <1>3, LeastIs
  <2> QED
    BY <1>2, <2>1, <2>2
<1>4. ASSUME S # {}
      PROVE  /\ n \in Address /\ a < n /\ in_segment(n) /\ n # BADADDR
             /\ \E i \in 1..Len(segments) : segments[i].first = n
             /\ \A b \in Int : a <= b /\ b < n => ~in_segment(b)
  <2>1. n \in S /\ \A y \in S : n <= y
    <3> HIDE DEF S
    <3> QED
      BY <1>1, <1>4, LeastIs
  <2>2. PICK i \in 1..Len(segments) : segments[i].first > a /\ n = segments[i].first
    BY <2>1
  <2>3. \A j \in 1..Len(segments) : segments[j].first > a => n <= segments[j].first
    BY <2>1
  <2> HIDE DEF n
  <2>4. in_segment(n) /\ n \in Nat /\ n # BADADDR /\ n \in Address
    BY <2>2, Segments DEF in_segment, Address, BADADDR
  <2>5. \A b \in Int : a <= b /\ b < n => ~in_segment(b)
    BY <1>2, <2>3, <2>4, Segments
  <2> QED
    BY <2>2, <2>4, <2>5
<1>5. get_next_seg(a) = n
  BY DEF get_next_seg
<1> HIDE DEF n, S
<1> QED
  BY <1>3, <1>4, <1>5

\* Before a gap a segment ended.
LEMMA PreviousSegment ==
  ASSUME Valid, NEW a \in Int, ~in_segment(a)
  PROVE  LET p == get_prev_seg(a) IN
         /\ p = BADADDR => \A b \in Int : b <= a => ~in_segment(b)
         /\ p # BADADDR => /\ p \in Address /\ in_segment(p)
                           /\ \E i \in 1..Len(segments) :
                                p = segments[i].first /\ EndOf(p) = segments[i].end
                           /\ p < EndOf(p) /\ EndOf(p) <= a
                           /\ \A b \in Int : EndOf(p) <= b /\ b <= a => ~in_segment(b)
<1> DEFINE S == {segments[i].first : i \in {j \in 1..Len(segments) : segments[j].end <= a}}
           p == Greatest(S)
<1>1. S \in SUBSET (0..MaxAddr) /\ MaxAddr \in Nat
  BY Segments
<1>2. ASSUME NEW b \in Int, b <= a, in_segment(b)
      PROVE  \E i \in 1..Len(segments) :
               segments[i].end <= a /\ segments[i].first <= b /\ b < segments[i].end
  <2>1. PICK i \in 1..Len(segments) : segments[i].first <= b /\ b < segments[i].end
    BY <1>2 DEF in_segment
  <2>2. segments[i].end <= a
    BY <1>2, <2>1, Segments DEF in_segment
  <2> QED
    BY <2>1, <2>2
<1>3. ASSUME S = {} PROVE p = BADADDR /\ \A b \in Int : b <= a => ~in_segment(b)
  <2>1. \A i \in 1..Len(segments) : ~(segments[i].end <= a)
    BY <1>3
  <2>2. p = BADADDR
    BY <1>1, <1>3, GreatestIs
  <2> QED
    BY <1>2, <2>1, <2>2
<1>4. ASSUME S # {}
      PROVE  /\ p \in Address /\ in_segment(p) /\ p # BADADDR
             /\ \E i \in 1..Len(segments) : p = segments[i].first /\ EndOf(p) = segments[i].end
             /\ p < EndOf(p) /\ EndOf(p) <= a
             /\ \A b \in Int : EndOf(p) <= b /\ b <= a => ~in_segment(b)
  <2>1. p \in S /\ \A y \in S : y <= p
    <3> HIDE DEF S
    <3> QED
      BY <1>1, <1>4, GreatestIs
  <2>2. PICK i \in 1..Len(segments) : segments[i].end <= a /\ p = segments[i].first
    BY <2>1
  <2>3. \A j \in 1..Len(segments) : segments[j].end <= a => segments[j].first <= p
    BY <2>1
  <2> HIDE DEF p
  <2>4. in_segment(p) /\ p \in Nat /\ p # BADADDR /\ p \in Address
    BY <2>2, Segments DEF in_segment, Address, BADADDR
  <2>5. \A j \in 1..Len(segments) : segments[j].first = p => j = i
    BY <2>2, Segments
  <2>6. EndOf(p) = segments[i].end
    BY <2>2, <2>5 DEF EndOf
  <2>7. ASSUME NEW b \in Int, segments[i].end <= b, b <= a, in_segment(b) PROVE FALSE
    <3>1. PICK j \in 1..Len(segments) :
            segments[j].end <= a /\ segments[j].first <= b /\ b < segments[j].end
      BY <1>2, <2>7
    <3>2. segments[j].first <= segments[i].first
      BY <2>2, <2>3, <3>1
    <3>3. i < j \/ j < i
      BY <2>7, <3>1, Segments
    <3> QED
      BY <2>7, <3>1, <3>2, <3>3, Segments
  <2> QED
    BY <2>2, <2>4, <2>6, <2>7, Segments
<1>5. get_prev_seg(a) = p
  BY DEF get_prev_seg
<1> HIDE DEF p, S
<1> QED
  BY <1>3, <1>4, <1>5

\* An item: no other begins in it.
LEMMA HeadIs ==
  ASSUME Valid, NEW a, is_head(a)
  PROVE  /\ a \in Address /\ in_segment(a) /\ Item(a) \in items /\ Item(a).at = a
         /\ Item(a).size \in Nat \ {0} /\ Item(a).kind \in Kind
         /\ a + Item(a).size <= MaxAddr
         /\ \E i \in 1..Len(segments) :
              segments[i].first <= a /\ a + Item(a).size <= segments[i].end
         /\ \A b \in Int : a < b /\ b < a + Item(a).size => ~is_head(b)
<1>1. Item(a) \in items /\ Item(a).at = a
  BY DEF is_head, Item
<1> DEFINE t == Item(a)
<1>2. t \in [at : Nat, size : Nat \ {0}, kind : Kind]
  BY <1>1 DEF Valid, WellFormed
<1>3. PICK i \in 1..Len(segments) : segments[i].first <= a /\ a + t.size <= segments[i].end
  BY <1>1 DEF Valid, WellFormed
<1> HIDE DEF t
<1>4. a \in Nat /\ t.size \in Nat \ {0} /\ t.kind \in Kind
  BY <1>1, <1>2 DEF t
<1>5. a \in Address /\ in_segment(a) /\ a + t.size <= MaxAddr
  BY <1>3, <1>4, Segments DEF in_segment, Address
<1>6. ASSUME NEW b \in Int, a < b, b < a + t.size, is_head(b) PROVE FALSE
  <2>1. PICK u \in items : u.at = b
    BY <1>6 DEF is_head
  <2>2. u # t /\ t \in items /\ t.at = a
    BY <1>1, <1>6, <2>1 DEF t
  <2>3. t.at + t.size <= u.at \/ u.at + u.size <= t.at
    BY <2>1, <2>2 DEF Valid, WellFormed
  <2>4. u.size \in Nat \ {0}
    BY <2>1 DEF Valid, WellFormed
  <2> QED
    BY <1>4, <1>6, <2>1, <2>2, <2>3, <2>4
<1> QED
  BY <1>1, <1>3, <1>4, <1>5, <1>6 DEF t

\* An item is found by its head.
LEMMA ItemOf ==
  ASSUME Valid, NEW t \in items
  PROVE  is_head(t.at) /\ Item(t.at) = t
<1>1. is_head(t.at)
  BY DEF is_head
<1>2. Item(t.at) \in items /\ Item(t.at).at = t.at
  BY <1>1, HeadIs
<1>3. t.at \in Nat /\ t.size \in Nat \ {0} /\ Item(t.at).size \in Nat \ {0}
  BY <1>2 DEF Valid, WellFormed
<1> DEFINE u == Item(t.at)
<1>4. t # u => t.at + t.size <= u.at \/ u.at + u.size <= t.at
  BY <1>2 DEF Valid, WellFormed
<1> HIDE DEF u
<1>5. t = u
  BY <1>2, <1>3, <1>4 DEF u
<1> QED
  BY <1>1, <1>5 DEF u

\* next_head finds the first head after an address, below a limit.
LEMMA NextHead ==
  ASSUME Valid, NEW a \in Int, NEW limit \in Int
  PROVE  LET n == next_head(a, limit) IN
         /\ n = BADADDR => \A b \in Int : a < b /\ b < limit => ~is_head(b)
         /\ n # BADADDR => /\ is_head(n) /\ n \in Address /\ a < n /\ n < limit
                           /\ \A b \in Int : a < b /\ b < n => ~is_head(b)
<1> DEFINE S == {t.at : t \in {u \in items : a < u.at /\ u.at < limit}}
           n == Least(S)
<1>1. S \in SUBSET Nat
  BY DEF Valid, WellFormed
<1>2. \A b : is_head(b) /\ a < b /\ b < limit <=> b \in S
  BY DEF is_head
<1>3. next_head(a, limit) = n
  BY DEF next_head
<1> HIDE DEF S
<1>4. S = {} => n = BADADDR
  BY <1>1, LeastIs
<1>5. S # {} => n \in S /\ \A y \in S : n <= y
  BY <1>1, LeastIs
<1> HIDE DEF n
<1>6. n \in S => n \in Nat /\ n # BADADDR /\ is_head(n) /\ a < n /\ n < limit /\ n \in Address
  BY <1>1, <1>2, HeadIs DEF BADADDR
<1>7. S # {} => \A b \in Int : a < b /\ b < n => ~is_head(b)
  BY <1>1, <1>2, <1>5, <1>6
<1>8. S = {} => \A b \in Int : a < b /\ b < limit => ~is_head(b)
  BY <1>2
<1> QED
  BY <1>3, <1>4, <1>5, <1>6, <1>7, <1>8

\* prev_head finds the last head before an address.
LEMMA PreviousHead ==
  ASSUME Valid, NEW a \in Int
  PROVE  LET p == prev_head(a, 0) IN
         /\ p = BADADDR => \A b \in Int : b < a => ~is_head(b)
         /\ p # BADADDR => /\ is_head(p) /\ p \in Address /\ p < a
                           /\ \A b \in Int : p < b /\ b < a => ~is_head(b)
<1> DEFINE S == {t.at : t \in {u \in items : 0 <= u.at /\ u.at < a}}
           p == Greatest(S)
<1>1. MaxAddr \in Nat
  BY ViewAssumption
<1>2. \A b : is_head(b) => b \in 0..MaxAddr
  BY HeadIs DEF Address
<1>3. \A b : is_head(b) /\ b < a <=> b \in S
  BY <1>2 DEF is_head
<1>4. prev_head(a, 0) = p
  BY DEF prev_head
<1> HIDE DEF S
<1>5. S \in SUBSET (0..MaxAddr)
  BY <1>2, <1>3
<1>6. S = {} => p = BADADDR
  BY <1>1, <1>5, GreatestIs
<1>7. S # {} => p \in S /\ \A y \in S : y <= p
  BY <1>1, <1>5, GreatestIs
<1> HIDE DEF p
<1>8. p \in S => p \in Nat /\ p # BADADDR /\ is_head(p) /\ p < a /\ p \in Address
  BY <1>1, <1>3, <1>5 DEF BADADDR, Address
<1>9. S # {} => \A b \in Int : p < b /\ b < a => ~is_head(b)
  BY <1>2, <1>3, <1>5, <1>7, <1>8
<1> QED
  BY <1>3, <1>4, <1>6, <1>7, <1>8, <1>9

-----------------------------------------------------------------------------
(* Rows, and sequences of lines. *)

\* A row begins here.
Aligned(a) == a % Row = 0

\* What division by the size of a row is.
LEMMA Division ==
  ASSUME NEW a \in Int
  PROVE  /\ Row \in Nat \ {0} /\ a \div Row \in Int /\ a % Row \in 0..(Row - 1)
         /\ a = Row * (a \div Row) + (a % Row)
<1>1. Row \in Nat \ {0}
  BY ViewAssumption
<1>2. a \div Row \in Int
  BY <1>1
<1>3. a % Row \in 0..(Row - 1)
  BY <1>1
<1>4. a = Row * (a \div Row) + (a % Row)
  BY <1>1
<1> QED
  BY <1>1, <1>2, <1>3, <1>4

\* Rows begin at the multiples of that size.
LEMMA RowMultiple ==
  ASSUME NEW a \in Int
  PROVE  Aligned(a) <=> \E k \in Int : a = k * Row
<1> DEFINE q == a \div Row
           r == a % Row
<1>1. Row \in Nat \ {0} /\ q \in Int /\ r \in 0..(Row - 1) /\ a = Row * q + r
  BY Division
<1>2. Aligned(a) <=> r = 0
  BY DEF Aligned
<1> HIDE DEF q, r
<1>3. r = 0 => a = q * Row
  BY <1>1
<1>4. ASSUME NEW k \in Int, a = k * Row PROVE r = 0
  <2>1. Row * (k - q) = r
    BY <1>1, <1>4
  <2>2. k - q >= 1 => Row * (k - q) >= Row
    BY <1>1
  <2>3. k - q <= -1 => Row * (k - q) <= -Row
    BY <1>1
  <2>4. k - q = 0
    BY <1>1, <2>1, <2>2, <2>3
  <2> QED
    BY <1>1, <2>1, <2>4
<1> QED
  BY <1>1, <1>2, <1>3, <1>4

\* Align finds the row of a byte; rows are as far apart as they are long.
LEMMA AlignIs ==
  /\ \A a \in Int : Align(a) \in Int /\ Aligned(Align(a)) /\ Align(a) <= a /\ a < Align(a) + Row
  /\ \A a \in Int : Aligned(a) => Aligned(a + Row) /\ Aligned(a - Row)
  /\ \A a, b \in Int : Aligned(a) /\ Aligned(b) /\ a < b => a + Row <= b
<1> USE ViewAssumption
<1>1. ASSUME NEW a \in Int
      PROVE  Align(a) \in Int /\ Aligned(Align(a)) /\ Align(a) <= a /\ a < Align(a) + Row
  <2> DEFINE q == a \div Row
  <2>1. q \in Int /\ a % Row \in 0..(Row - 1) /\ a = Row * q + (a % Row)
    BY Division
  <2>2. Align(a) = q * Row
    BY DEF Align
  <2> DEFINE r == a % Row
             m == q * Row
  <2>3. r \in 0..(Row - 1) /\ a = m + r /\ m \in Int
    BY <2>1
  <2>4. Aligned(m)
    BY <2>1, <2>3, RowMultiple
  <2> HIDE DEF q, r, m
  <2> QED
    BY <2>2, <2>3, <2>4 DEF m
<1>2. ASSUME NEW a \in Int, Aligned(a) PROVE Aligned(a + Row) /\ Aligned(a - Row)
  <2>1. PICK k \in Int : a = k * Row
    BY <1>2, RowMultiple
  <2>2. a + Row = (k + 1) * Row /\ a - Row = (k - 1) * Row /\ k + 1 \in Int /\ k - 1 \in Int
    BY <2>1
  <2>3. a + Row \in Int /\ a - Row \in Int
    OBVIOUS
  <2>4. (\E n \in Int : a + Row = n * Row) /\ (\E n \in Int : a - Row = n * Row)
    BY <2>2
  <2> QED
    BY <2>3, <2>4, RowMultiple
<1>3. ASSUME NEW a \in Int, NEW b \in Int, Aligned(a), Aligned(b), a < b PROVE a + Row <= b
  <2>1. PICK k \in Int : a = k * Row
    BY <1>3, RowMultiple
  <2>2. PICK m \in Int : b = m * Row
    BY <1>3, RowMultiple
  <2>3. k < m
    BY <1>3, <2>1, <2>2
  <2>4. (k + 1) * Row <= m * Row
    BY <2>3
  <2> QED
    BY <2>1, <2>2, <2>4
<1> QED
  BY <1>1, <1>2, <1>3

\* Two rows.
LEMMA Apart ==
  ASSUME NEW a \in Int, NEW b \in Int, Aligned(a), Aligned(b), a < b
  PROVE  a + Row <= b
BY AlignIs

\* The rows next to one.
LEMMA NextAligned ==
  ASSUME NEW a \in Int, Aligned(a)
  PROVE  Aligned(a + Row) /\ Aligned(a - Row)
BY AlignIs

\* Of segments made of rows.
LEMMA RegularRows ==
  ASSUME Valid, Regular
  PROVE  /\ \A b \in Int : in_segment(b) => in_segment(Align(b))
         /\ \A i \in 1..Len(segments) : Aligned(segments[i].first) /\ Aligned(segments[i].end)
<1>1. \A i \in 1..Len(segments) : Aligned(segments[i].first) /\ Aligned(segments[i].end)
  BY DEF Regular, Aligned
<1>2. ASSUME NEW b \in Int, in_segment(b) PROVE in_segment(Align(b))
  <2>1. PICK i \in 1..Len(segments) : segments[i].first <= b /\ b < segments[i].end
    BY <1>2 DEF in_segment
  <2>2. segments[i].first \in Int /\ segments[i].end \in Int /\ Row \in Nat
    BY Segments, ViewAssumption
  <2>0. Align(b) \in Int /\ Aligned(Align(b)) /\ Align(b) <= b /\ b < Align(b) + Row
    BY AlignIs
  <2>3. segments[i].first <= Align(b)
    <3>1. SUFFICES ASSUME Align(b) < segments[i].first PROVE FALSE
      BY <2>0, <2>2
    <3>2. Align(b) + Row <= segments[i].first
      BY <1>1, <2>0, <2>2, <3>1, AlignIs
    <3> QED
      BY <2>0, <2>1, <2>2, <3>2
  <2> QED
    BY <2>0, <2>1, <2>2, <2>3 DEF in_segment
<1> QED
  BY <1>1, <1>2

\* A sequence of one line.
LEMMA OneLine ==
  ASSUME NEW x \in Lines
  PROVE  <<x>> \in Seq(Lines) /\ Shown(<<x>>) = {x} /\ InOrder(<<x>>) /\ <<x>> # << >>
BY DEF Shown, InOrder

\* The one of none.
LEMMA NoLines == << >> \in Seq(Lines) /\ Shown(<< >>) = {} /\ InOrder(<< >>)
BY DEF Shown, InOrder

\* The lines of a sequence, and its first and last.
LEMMA LinesTyped ==
  ASSUME NEW s \in Seq(Lines)
  PROVE  /\ Len(s) \in Nat /\ (s # << >> <=> Len(s) > 0)
         /\ \A i \in 1..Len(s) : s[i] \in Shown(s)
         /\ \A x \in Shown(s) : /\ x \in Lines /\ x.addr \in Int /\ x.size \in Nat
                                /\ \E i \in 1..Len(s) : x = s[i]
         /\ s # << >> => s[1] \in Shown(s) /\ s[Len(s)] \in Shown(s)
<1>1. Len(s) \in Nat /\ (s # << >> <=> Len(s) > 0)
  BY LenProperties, EmptySeq
<1>2. \A i \in 1..Len(s) : s[i] \in Lines
  BY ElementOfSeq
<1> QED
  BY <1>1, <1>2 DEF Shown, Lines

\* Two sequences put together.
LEMMA Joined ==
  ASSUME NEW s \in Seq(Lines), NEW t \in Seq(Lines)
  PROVE  /\ s \o t \in Seq(Lines) /\ Shown(s \o t) = Shown(s) \cup Shown(t)
         /\ s # << >> => s \o t # << >> /\ (s \o t)[1] = s[1]
         /\ t # << >> => s \o t # << >> /\ (s \o t)[Len(s \o t)] = t[Len(t)]
         /\ s = << >> => s \o t = t
         /\ t = << >> => s \o t = s
<1> DEFINE u == s \o t
<1>1. Len(s) \in Nat /\ Len(t) \in Nat /\ (s # << >> <=> Len(s) > 0) /\ (t # << >> <=> Len(t) > 0)
  BY LinesTyped
<1>2. /\ u \in Seq(Lines) /\ Len(u) = Len(s) + Len(t)
      /\ \A i \in 1..Len(u) : u[i] = IF i <= Len(s) THEN s[i] ELSE t[i - Len(s)]
  BY ConcatProperties
<1>3. (s = << >> => u = t) /\ (t = << >> => u = s)
  BY ConcatEmptySeq
<1>4. u # << >> <=> Len(u) > 0
  BY <1>2, LinesTyped
<1> HIDE DEF u
<1>5. s # << >> => u # << >> /\ u[1] = s[1]
  BY <1>1, <1>2, <1>4
<1>6. t # << >> => u # << >> /\ u[Len(u)] = t[Len(t)]
  BY <1>1, <1>2, <1>4
<1>7. Shown(u) = Shown(s) \cup Shown(t)
  <2>1. ASSUME NEW x \in Shown(u) PROVE x \in Shown(s) \cup Shown(t)
    <3>1. PICK i \in 1..Len(u) : x = u[i]
      BY DEF Shown
    <3>2. CASE i <= Len(s)
      BY <1>1, <1>2, <3>1, <3>2 DEF Shown
    <3>3. CASE ~(i <= Len(s))
      <4>1. i - Len(s) \in 1..Len(t) /\ x = t[i - Len(s)]
        BY <1>1, <1>2, <3>1, <3>3
      <4> QED
        BY <4>1 DEF Shown
    <3> QED
      BY <3>2, <3>3
  <2>2. ASSUME NEW i \in 1..Len(s) PROVE s[i] \in Shown(u)
    <3>1. i \in 1..Len(u) /\ u[i] = s[i]
      BY <1>1, <1>2
    <3> QED
      BY <3>1 DEF Shown
  <2>3. ASSUME NEW i \in 1..Len(t) PROVE t[i] \in Shown(u)
    <3>1. Len(s) + i \in 1..Len(u) /\ ~(Len(s) + i <= Len(s)) /\ (Len(s) + i) - Len(s) = i
      BY <1>1, <1>2
    <3>2. u[Len(s) + i] = t[i]
      BY <1>2, <3>1
    <3> QED
      BY <3>1, <3>2 DEF Shown
  <2> QED
    BY <2>1, <2>2, <2>3 DEF Shown
<1> QED
  BY <1>2, <1>3, <1>5, <1>6, <1>7 DEF u

\* They are in order if each is, and the first before the second.
LEMMA JoinedInOrder ==
  ASSUME NEW s \in Seq(Lines), NEW t \in Seq(Lines), InOrder(s), InOrder(t),
         \A x \in Shown(s), y \in Shown(t) : Before(x, y)
  PROVE  InOrder(s \o t)
<1> DEFINE u == s \o t
<1>1. Len(s) \in Nat /\ Len(t) \in Nat
  BY LinesTyped
<1>2. /\ Len(u) = Len(s) + Len(t)
      /\ \A i \in 1..Len(u) : u[i] = IF i <= Len(s) THEN s[i] ELSE t[i - Len(s)]
  BY ConcatProperties
<1> HIDE DEF u
<1>3. ASSUME NEW i \in 1..Len(u), NEW j \in 1..Len(u), i < j PROVE Before(u[i], u[j])
  <2>1. CASE j <= Len(s)
    BY <1>1, <1>2, <1>3, <2>1 DEF InOrder
  <2>2. CASE i > Len(s)
    <3>1. i - Len(s) \in 1..Len(t) /\ j - Len(s) \in 1..Len(t) /\ i - Len(s) < j - Len(s)
      BY <1>1, <1>2, <1>3, <2>2
    <3>2. u[i] = t[i - Len(s)] /\ u[j] = t[j - Len(s)]
      BY <1>1, <1>2, <1>3, <2>2
    <3> QED
      BY <3>1, <3>2 DEF InOrder
  <2>3. CASE i <= Len(s) /\ j > Len(s)
    <3>1. i \in 1..Len(s) /\ j - Len(s) \in 1..Len(t) /\ u[i] = s[i] /\ u[j] = t[j - Len(s)]
      BY <1>1, <1>2, <1>3, <2>3
    <3>2. s[i] \in Shown(s) /\ t[j - Len(s)] \in Shown(t)
      BY <3>1 DEF Shown
    <3> QED
      BY <3>1, <3>2
  <2> QED
    BY <1>1, <1>2, <2>1, <2>2, <2>3
<1> QED
  BY <1>3 DEF InOrder, u

\* Of lines in order the first and the last are at the ends.
LEMMA EndsOfLines ==
  ASSUME NEW s \in Seq(Lines), InOrder(s), NEW x \in Shown(s)
  PROVE  /\ x = s[1] \/ Before(s[1], x)
         /\ x = s[Len(s)] \/ Before(x, s[Len(s)])
         /\ s[1].addr <= x.addr /\ x.addr <= s[Len(s)].addr
<1>1. PICK i \in 1..Len(s) : x = s[i]
  BY LinesTyped
<1>2. Len(s) \in Nat /\ 1 \in 1..Len(s) /\ Len(s) \in 1..Len(s)
  BY <1>1, LinesTyped
<1>3. x = s[1] \/ Before(s[1], x)
  BY <1>1, <1>2 DEF InOrder
<1>4. x = s[Len(s)] \/ Before(x, s[Len(s)])
  BY <1>1, <1>2 DEF InOrder
<1>5. s[1].addr \in Int /\ s[Len(s)].addr \in Int /\ x.addr \in Int
  BY <1>2, LinesTyped
<1> QED
  BY <1>3, <1>4, <1>5 DEF Before

-----------------------------------------------------------------------------
(* hex_view. *)

\* The variables of a listing loop before its first turn.
Start(from, count) == [cur |-> from, left |-> count, lines |-> << >>]

\* They have their types.
LEMMA StartTyped ==
  ASSUME NEW from \in Int, NEW count \in Nat
  PROVE  Start(from, count) \in Listing
BY NoLines DEF Start, Listing

\* The next mapped address, if there is one.
LEMMA NextMapped ==
  ASSUME Valid, NEW a \in Int
  PROVE  LET n == next_seg_start(a) IN
         /\ n = BADADDR => \A b \in Int : a <= b => ~in_segment(b)
         /\ n # BADADDR => /\ n \in Address /\ a <= n /\ in_segment(n) /\ (n = a <=> in_segment(a))
                           /\ \A b \in Int : a <= b /\ b < n => ~in_segment(b)
<1>1. CASE in_segment(a)
  BY <1>1, Mapped DEF next_seg_start, Address, BADADDR
<1>2. CASE ~in_segment(a)
  BY <1>2, NextSegment DEF next_seg_start, Address, BADADDR
<1> QED
  BY <1>1, <1>2

\* After the skip of a gap the scan goes on at a mapped byte, no further than the next
\* one, and in a row that holds it.
LEMMA SkipIs ==
  ASSUME Valid, NEW n \in Int, in_segment(n)
  PROVE  LET c == SkipForward(n) IN
         /\ c \in Int /\ in_segment(c) /\ c <= n /\ n < c + Row
         /\ \A a \in Int : Aligned(a) /\ a <= n => a <= c
         /\ Regular => Aligned(c)
<1>1. Align(n) \in Int /\ Aligned(Align(n)) /\ Align(n) <= n /\ n < Align(n) + Row
  BY AlignIs
<1>2. Row \in Nat \ {0}
  BY ViewAssumption
<1>3. Regular => in_segment(Align(n))
  BY RegularRows
<1>4. \A a \in Int : Aligned(a) /\ a <= n => a <= Align(n)
  <2> SUFFICES ASSUME NEW a \in Int, Aligned(a), a <= n, Align(n) < a PROVE FALSE
    BY <1>1
  <2>1. Align(n) + Row <= a
    BY <1>1, AlignIs
  <2> QED
    BY <1>1, <1>2, <2>1
<1> QED
  BY <1>1, <1>2, <1>3, <1>4 DEF SkipForward

\* Where hex_view's loop is left, forward.
HexForwardOver ==
  {s \in Listing : s.left = 0 \/ s.cur >= max_ea \/ next_seg_start(s.cur) = BADADDR}

\* The rows of a page ascend and cover the bytes passed; behind the page there is room
\* for the next row.
HexForwardInv(a, count) ==
  {s \in Listing :
     /\ a <= s.cur /\ s.left <= count /\ (s.left < count => s.lines # << >> /\ a < s.cur)
     /\ InOrder(s.lines)
     /\ \A x \in Shown(s.lines) :
          /\ x.what = "row" /\ x.size = Row /\ in_segment(x.addr) /\ a <= x.addr
          /\ x.addr < s.cur /\ (in_segment(s.cur) \/ x.addr + Row <= s.cur)
     /\ \A b \in Int : a <= b /\ b < s.cur /\ in_segment(b) =>
          \E x \in Shown(s.lines) : x.addr <= b /\ b < x.addr + Row
     /\ Regular => Aligned(s.cur) /\ \A x \in Shown(s.lines) : Aligned(x.addr)}

\* A turn keeps that, and gets on: by a row, or to a mapped byte.
LEMMA HexForwardTurn ==
  ASSUME Valid, NEW a \in Int, Aligned(a), NEW count \in Nat, NEW s \in HexForwardInv(a, count),
         s \notin HexForwardOver
  PROVE  LET t == HexForward[s] IN
         /\ t \in HexForwardInv(a, count)
         /\ s.cur \in Int /\ t.cur \in Int
         /\ in_segment(s.cur) => t.cur = s.cur + Row
         /\ ~in_segment(s.cur) => in_segment(t.cur) /\ s.cur < t.cur + Row
<1>1. s \in Listing
  BY DEF HexForwardInv
<1>2. s.cur \in Int /\ s.left \in Nat /\ s.lines \in Seq(Lines)
  BY <1>1 DEF Listing
<1>3. s.left # 0 /\ s.cur < max_ea /\ next_seg_start(s.cur) # BADADDR
  BY <1>1, <1>2, Segments DEF HexForwardOver
<1>4. Row \in Nat \ {0} /\ max_ea \in Nat
  BY ViewAssumption, Segments
<1> DEFINE t == HexForward[s]
           n == next_seg_start(s.cur)
           c == SkipForward(n)
           row == Line(s.cur, "row", Row)
<1>5. t = IF in_segment(s.cur)
          THEN [cur |-> s.cur + Row, left |-> s.left - 1, lines |-> s.lines \o <<row>>]
          ELSE [s EXCEPT !.cur = c]
  BY <1>1, <1>2, <1>3, <1>4 DEF HexForward
<1> HIDE DEF t
<1>6. CASE in_segment(s.cur)
  <2>1. row \in Lines /\ row.addr = s.cur /\ row.what = "row" /\ row.size = Row
    BY <1>2, <1>4 DEF Line, Lines
  <2> HIDE DEF row
  <2> DEFINE u == s.lines \o <<row>>
  <2>2. u \in Seq(Lines) /\ Shown(u) = Shown(s.lines) \cup {row} /\ u # << >>
    <3> DEFINE one == <<row>>
    <3>1. one \in Seq(Lines) /\ Shown(one) = {row} /\ one # << >>
      BY <2>1, OneLine
    <3> HIDE DEF one
    <3>2. /\ s.lines \o one \in Seq(Lines) /\ s.lines \o one # << >>
          /\ Shown(s.lines \o one) = Shown(s.lines) \cup {row}
      BY <1>2, <3>1, Joined
    <3> QED
      BY <3>2 DEF one
  <2>3. InOrder(u)
    <3>1. \A x \in Shown(s.lines) : Before(x, row)
      BY <2>1 DEF HexForwardInv, Before
    <3>2. InOrder(s.lines) /\ InOrder(<<row>>) /\ Shown(<<row>>) = {row} /\ <<row>> \in Seq(Lines)
      BY <2>1, OneLine DEF HexForwardInv
    <3> QED
      BY <1>2, <3>1, <3>2, JoinedInOrder
  <2> HIDE DEF u
  <2>4. t = [cur |-> s.cur + Row, left |-> s.left - 1, lines |-> u]
    BY <1>5, <1>6 DEF u
  <2>5. t.cur = s.cur + Row /\ t.left = s.left - 1 /\ t.lines = u /\ t \in Listing
    BY <1>2, <1>3, <1>4, <2>2, <2>4 DEF Listing
  <2>6. a <= t.cur /\ t.left <= count /\ a < t.cur /\ a <= s.cur
    BY <1>2, <1>3, <1>4, <2>5 DEF HexForwardInv
  <2>7. \A x \in Shown(u) :
          /\ x.what = "row" /\ x.size = Row /\ in_segment(x.addr) /\ a <= x.addr
          /\ x.addr < t.cur /\ x.addr + Row <= t.cur
    <3> SUFFICES ASSUME NEW x \in Shown(u)
                 PROVE /\ x.what = "row" /\ x.size = Row /\ in_segment(x.addr) /\ a <= x.addr
                       /\ x.addr < t.cur /\ x.addr + Row <= t.cur
      OBVIOUS
    <3>1. CASE x = row
      BY <1>2, <1>4, <1>6, <2>1, <2>5, <2>6, <3>1
    <3>2. CASE x \in Shown(s.lines)
      <4>1. x.addr \in Int
        BY <1>2, <3>2, LinesTyped
      <4> QED
        BY <1>2, <1>4, <2>5, <3>2, <4>1 DEF HexForwardInv
    <3> QED
      BY <2>2, <3>1, <3>2
  <2>8. \A b \in Int : a <= b /\ b < t.cur /\ in_segment(b) =>
          \E x \in Shown(u) : x.addr <= b /\ b < x.addr + Row
    <3> SUFFICES ASSUME NEW b \in Int, a <= b, b < t.cur, in_segment(b)
                 PROVE  \E x \in Shown(u) : x.addr <= b /\ b < x.addr + Row
      OBVIOUS
    <3>1. CASE b < s.cur
      BY <2>2, <3>1 DEF HexForwardInv
    <3>2. CASE ~(b < s.cur)
      BY <1>2, <2>1, <2>2, <2>5, <3>2
    <3> QED
      BY <3>1, <3>2
  <2>9. Regular => Aligned(t.cur) /\ \A x \in Shown(u) : Aligned(x.addr)
    BY <1>2, <2>1, <2>2, <2>5, AlignIs DEF HexForwardInv
  <2>10. t \in HexForwardInv(a, count)
    BY <2>2, <2>3, <2>5, <2>6, <2>7, <2>8, <2>9 DEF HexForwardInv
  <2> QED
    BY <1>2, <1>4, <1>6, <2>5, <2>10 DEF t
<1>7. CASE ~in_segment(s.cur)
  <2>1. /\ n \in Int /\ s.cur < n /\ in_segment(n)
        /\ \A b \in Int : s.cur <= b /\ b < n => ~in_segment(b)
    BY <1>2, <1>3, <1>7, NextMapped DEF Address
  <2>2. /\ c \in Int /\ in_segment(c) /\ c <= n /\ n < c + Row
        /\ \A b \in Int : Aligned(b) /\ b <= n => b <= c
        /\ Regular => Aligned(c)
    BY <2>1, SkipIs
  <2> HIDE DEF n, c
  <2>3. t.cur = c /\ t.left = s.left /\ t.lines = s.lines /\ t \in Listing
    BY <1>1, <1>2, <1>5, <1>7, <2>2 DEF Listing
  <2>4. a <= c /\ a <= s.cur
    BY <1>2, <2>1, <2>2 DEF HexForwardInv
  <2>5. \A x \in Shown(s.lines) :
          /\ x.what = "row" /\ x.size = Row /\ in_segment(x.addr) /\ a <= x.addr
          /\ x.addr < c
    <3> SUFFICES ASSUME NEW x \in Shown(s.lines)
                 PROVE /\ x.what = "row" /\ x.size = Row /\ in_segment(x.addr) /\ a <= x.addr
                       /\ x.addr < c
      OBVIOUS
    <3>1. x.addr \in Int
      BY <1>2, LinesTyped
    <3>2. x.addr + Row <= s.cur
      BY <1>7 DEF HexForwardInv
    <3>3. x.addr < c
      BY <1>2, <1>4, <2>1, <2>2, <3>1, <3>2
    <3> QED
      BY <3>3 DEF HexForwardInv
  <2>6. \A b \in Int : a <= b /\ b < c /\ in_segment(b) =>
          \E x \in Shown(s.lines) : x.addr <= b /\ b < x.addr + Row
    BY <1>2, <2>1, <2>2 DEF HexForwardInv
  <2>7. s.left < count => s.lines # << >> /\ a < c
    <3>1. SUFFICES ASSUME s.left < count PROVE s.lines # << >> /\ a < c
      OBVIOUS
    <3>2. s.lines # << >> /\ a < s.cur
      BY <3>1 DEF HexForwardInv
    <3>3. s.lines[1] \in Shown(s.lines) /\ s.lines[1].addr \in Int
      BY <1>2, <3>2, LinesTyped
    <3> QED
      BY <2>2, <2>5, <3>2, <3>3
  <2>8. t \in HexForwardInv(a, count)
    BY <2>2, <2>3, <2>4, <2>5, <2>6, <2>7 DEF HexForwardInv
  <2>9. s.cur < c + Row
    BY <1>2, <1>4, <2>1, <2>2
  <2> QED
    BY <1>2, <1>7, <2>2, <2>3, <2>8, <2>9 DEF t
<1> QED
  BY <1>6, <1>7

\* What the listing loops come to.
LEMMA StartIs ==
  ASSUME NEW turn, NEW from, NEW count
  PROVE  Listed(turn, from, count) = Loop(turn, Start(from, count))[Turns]
BY DEF Listed, Start

\* The number of turns they are given.
LEMMA TurnsIs == Turns \in Nat /\ Turns = 2 * (MaxAddr + Row) + 1
BY ViewAssumption DEF Turns

\* The scan ends.
LEMMA HexForwardEnds ==
  ASSUME Valid, NEW a \in Nat, Aligned(a), NEW count \in Nat
  PROVE  Listed(HexForward, a, count) \in HexForwardInv(a, count) \cap HexForwardOver
<1> DEFINE I == HexForwardInv(a, count)
           from == Start(a, count)
           variant == [s \in I |-> IF in_segment(s.cur) THEN 2 * (s.cur + Row) - 1 ELSE 2 * s.cur]
<1>1. \A s \in I : s \in Listing /\ s.cur \in Int
  BY DEF HexForwardInv, Listing
<1>2. Row \in Nat \ {0} /\ MaxAddr \in Nat /\ max_ea \in Int /\ max_ea <= MaxAddr
  BY Segments, ViewAssumption
<1>3. from \in I
  <2>1. from \in Listing /\ from.cur = a /\ from.left = count /\ from.lines = << >>
    BY StartTyped DEF Start
  <2>2. Shown(from.lines) = {} /\ InOrder(from.lines)
    BY <2>1, NoLines
  <2> HIDE DEF from
  <2> QED
    BY <2>1, <2>2 DEF HexForwardInv
<1>4. \A s \in HexForwardOver : HexForward[s] = s
  BY DEF HexForwardOver, HexForward
<1>5. \A s \in I : s \notin HexForwardOver => HexForward[s] \in I
  BY HexForwardTurn
<1>6. \A s \in I : s \notin HexForwardOver => s.cur < max_ea
  BY <1>1, <1>2 DEF HexForwardOver
<1>7. ASSUME NEW s \in I, s \notin HexForwardOver
      PROVE  variant[HexForward[s]] > variant[s]
  <2> DEFINE t == HexForward[s]
  <2>1. /\ t \in I /\ s.cur \in Int /\ t.cur \in Int
        /\ in_segment(s.cur) => t.cur = s.cur + Row
        /\ ~in_segment(s.cur) => in_segment(t.cur) /\ s.cur < t.cur + Row
    BY <1>7, HexForwardTurn
  <2> HIDE DEF t, I
  <2>2. variant[t] > variant[s]
    BY <1>2, <2>1
  <2> QED
    BY <2>2 DEF t
<1>8. variant[from] >= 0
  <2>1. from.cur = a
    BY DEF Start
  <2> HIDE DEF from, I
  <2> QED
    BY <1>2, <1>3, <2>1
<1>9. variant \in [I -> Int] /\ \A s \in I : s \notin HexForwardOver => variant[s] < Turns
  <2> HIDE DEF I
  <2> QED
    BY <1>1, <1>2, <1>6, TurnsIs
<1>10. \A s \in I : HexForward[s] \in I
  BY <1>4, <1>5
<1> HIDE DEF I, from, variant
<1>11. Progresses(I, HexForward, HexForwardOver, variant, Turns)
  BY <1>4, <1>7, <1>9, <1>10 DEF Progresses
<1>12. Loop(HexForward, from)[Turns] \in I \cap HexForwardOver
  BY <1>3, <1>8, <1>11, TurnsIs, LoopEnds
<1> QED
  BY <1>12, StartIs DEF I, from

\* The row of an address is an address.
LEMMA AlignedAddress ==
  ASSUME NEW a \in Nat
  PROVE  Align(a) \in Nat /\ Align(a) <= a /\ Aligned(Align(a))
<1>1. Aligned(0) /\ Row \in Nat \ {0}
  <2>1. \E k \in Int : 0 = k * Row
    BY ViewAssumption
  <2> QED
    BY <2>1, RowMultiple, ViewAssumption
<1>2. Align(a) \in Int /\ Aligned(Align(a)) /\ Align(a) <= a /\ a < Align(a) + Row
  BY AlignIs
<1>3. Align(a) < 0 => Align(a) + Row <= 0
  BY <1>1, <1>2, AlignIs
<1> QED
  BY <1>1, <1>2, <1>3

\* Forward, a page of rows covers what it passes, and says whether more follows.
LEMMA HexForwardPage ==
  ASSUME Valid, NEW addr \in Nat, NEW count \in Nat \ {0}
  PROVE  \E s \in HexForwardInv(Align(addr), count) \cap HexForwardOver :
           LET page == hex_view(addr, count, "forward") IN
           /\ page.lines = s.lines
           /\ page.has_more <=> s.cur < max_ea /\ next_seg_start(s.cur) # BADADDR
           /\ page.has_more => s.lines # << >> /\ Align(addr) < s.cur
           /\ ~page.has_more => \A b \in Int : s.cur <= b => ~in_segment(b)
<1> DEFINE s == Listed(HexForward, Align(addr), count)
           page == hex_view(addr, count, "forward")
<1>1. s \in HexForwardInv(Align(addr), count) \cap HexForwardOver
  BY AlignedAddress, HexForwardEnds
<1>2. page.lines = s.lines /\ (page.has_more <=> s.cur < max_ea /\ next_seg_start(s.cur) # BADADDR)
  BY DEF hex_view
<1> HIDE DEF s, page
<1>3. s.cur \in Int /\ s.left \in Nat /\ max_ea \in Int
  BY <1>1, Segments DEF HexForwardInv, Listing
<1>4. ASSUME page.has_more PROVE s.lines # << >> /\ Align(addr) < s.cur
  <2>1. s.left = 0
    BY <1>1, <1>2, <1>3, <1>4 DEF HexForwardOver
  <2> QED
    BY <1>1, <2>1 DEF HexForwardInv
<1>5. ASSUME ~page.has_more, NEW b \in Int, s.cur <= b, in_segment(b) PROVE FALSE
  <2>1. b < max_ea
    BY <1>5, Mapped
  <2>2. next_seg_start(s.cur) = BADADDR
    BY <1>2, <1>3, <1>5, <2>1
  <2> QED
    BY <1>3, <1>5, <2>2, NextMapped
<1> QED
  BY <1>1, <1>2, <1>4, <1>5 DEF page

\* Such a page holds every mapped byte up to where it ends.
LEMMA HexCovers ==
  ASSUME Valid, NEW addr \in Nat, NEW count \in Nat \ {0}
  PROVE  LET page == hex_view(addr, count, "forward")
             rows == page.lines
             end  == IF page.has_more THEN rows[Len(rows)].addr + Row ELSE max_ea
         IN /\ InOrder(rows)
            /\ \A b \in Address : Align(addr) <= b /\ b < end /\ in_segment(b) =>
                 \E r \in Shown(rows) : r.addr <= b /\ b < r.addr + Row
<1> DEFINE page == hex_view(addr, count, "forward")
           a == Align(addr)
           bottomRow == page.lines[Len(page.lines)]
<1>1. PICK s \in HexForwardInv(a, count) \cap HexForwardOver :
        /\ page.lines = s.lines
        /\ page.has_more => s.lines # << >> /\ a < s.cur
        /\ ~page.has_more => \A b \in Int : s.cur <= b => ~in_segment(b)
  BY HexForwardPage
<1>2. s.lines \in Seq(Lines) /\ s.cur \in Int /\ InOrder(s.lines)
  BY DEF HexForwardInv, Listing
<1>3. \A b \in Int : a <= b /\ b < s.cur /\ in_segment(b) =>
        \E r \in Shown(s.lines) : r.addr <= b /\ b < r.addr + Row
  BY DEF HexForwardInv
<1>4. page.has_more => /\ bottomRow \in Shown(s.lines) /\ bottomRow.addr \in Int
                       /\ bottomRow.addr < s.cur
  BY <1>1, <1>2, LinesTyped DEF HexForwardInv
<1>5. a \in Int /\ Row \in Nat
  BY AlignedAddress, ViewAssumption
<1> HIDE DEF page, a, bottomRow
<1>6. ASSUME NEW b \in Address, a <= b, in_segment(b),
             page.has_more => b < bottomRow.addr + Row
      PROVE  \E r \in Shown(s.lines) : r.addr <= b /\ b < r.addr + Row
  <2>1. b \in Int
    BY ViewAssumption DEF Address
  <2>2. CASE b < s.cur
    BY <1>3, <1>6, <2>1, <2>2
  <2>3. CASE ~(b < s.cur)
    <3>1. page.has_more
      BY <1>1, <1>2, <1>6, <2>1, <2>3
    <3> QED
      BY <1>2, <1>4, <1>6, <2>1, <2>3, <3>1
  <2> QED
    BY <2>2, <2>3
<1> QED
  BY <1>1, <1>2, <1>6 DEF page, a, bottomRow

-----------------------------------------------------------------------------
(* What the panel needs of a page. *)

\* Where a view shows all there is.
Exact == IF view = "hex" THEN Regular ELSE Explored

\* A line of unexplored bytes, in which no head lies.
Unseen(x) ==
  /\ x.what = "unknown" /\ in_segment(x.addr) /\ x.size > 0
  /\ \A b \in Int : x.addr <= b /\ b < x.addr + x.size => ~is_head(b)

\* What may be shown: what there is and, where not all is known, unexplored bytes.
Legit(x) == x \in All \/ (~Exact /\ Unseen(x))

\* Going on from an address, a page has all there is up to e, and knows what follows.
Ahead(page, a) ==
  \E e \in Int :
    /\ a < e /\ page.lines \in Seq(Lines) /\ InOrder(page.lines)
    /\ \A x \in Shown(page.lines) : Legit(x) /\ a <= x.addr /\ x.addr < e
    /\ \A m \in All : a <= m.addr /\ m.addr < e => m \in Shown(page.lines)
    /\ Exact => (page.has_more <=> \E m \in All : e <= m.addr)

\* Going back, likewise.
Behind(page, a) ==
  \E e \in Int :
    /\ e < a /\ page.lines \in Seq(Lines) /\ InOrder(page.lines)
    /\ \A x \in Shown(page.lines) : Legit(x) /\ e < x.addr /\ x.addr <= a
    /\ \A m \in All : e < m.addr /\ m.addr <= a => m \in Shown(page.lines)
    /\ Exact => (page.has_more <=> \E m \in All : m.addr <= e)

\* Addresses past some others.
LEMMA Beyond ==
  ASSUME NEW a \in Int, NEW b \in Int, NEW c \in Int
  PROVE  /\ \E e \in Int : a <= e /\ b < e /\ c < e
         /\ \E e \in Int : e <= a /\ e < b /\ e < c
<1> DEFINE up == IF a > b THEN (IF a > c THEN a + 1 ELSE c + 1)
                 ELSE (IF b > c THEN b + 1 ELSE c + 1)
           dn == IF a < b THEN (IF a < c THEN a - 1 ELSE c - 1)
                 ELSE (IF b < c THEN b - 1 ELSE c - 1)
<1>1. up \in Int /\ a <= up /\ b < up /\ c < up
  OBVIOUS
<1>2. dn \in Int /\ dn <= a /\ dn < b /\ dn < c
  OBVIOUS
<1> HIDE DEF up, dn
<1> QED
  BY <1>1, <1>2

\* The hex view's lines are the rows that begin in a segment.
LEMMA RowIs ==
  ASSUME Valid, view = "hex"
  PROVE  /\ \A m \in All : /\ m.addr \in Address /\ Aligned(m.addr) /\ in_segment(m.addr)
                           /\ m = Line(m.addr, "row", Row) /\ m.what = "row" /\ m.size = Row
         /\ \A b \in Int : Aligned(b) /\ in_segment(b) => Line(b, "row", Row) \in All
<1>1. All = Rows
  BY DEF All
<1>2. \A b \in Int : in_segment(b) => b \in Address
  BY Mapped
<1> QED
  BY <1>1, <1>2 DEF Rows, Line, Aligned

\* hex_view goes on as the panel needs it.
LEMMA HexAhead ==
  ASSUME Valid, view = "hex", Regular, NEW addr \in Nat, NEW count \in Nat \ {0}
  PROVE  Ahead(hex_view(addr, count, "forward"), Align(addr))
<1> DEFINE page == hex_view(addr, count, "forward")
           a == Align(addr)
<1>1. PICK s \in HexForwardInv(a, count) \cap HexForwardOver :
        /\ page.lines = s.lines
        /\ page.has_more <=> s.cur < max_ea /\ next_seg_start(s.cur) # BADADDR
        /\ page.has_more => s.lines # << >> /\ a < s.cur
        /\ ~page.has_more => \A b \in Int : s.cur <= b => ~in_segment(b)
  BY HexForwardPage
<1>2. /\ s.lines \in Seq(Lines) /\ s.cur \in Int /\ InOrder(s.lines) /\ Aligned(s.cur)
      /\ \A x \in Shown(s.lines) :
           /\ x.what = "row" /\ x.size = Row /\ in_segment(x.addr) /\ a <= x.addr
           /\ x.addr < s.cur /\ Aligned(x.addr)
      /\ \A b \in Int : a <= b /\ b < s.cur /\ in_segment(b) =>
           \E x \in Shown(s.lines) : x.addr <= b /\ b < x.addr + Row
  BY DEF HexForwardInv, Listing
<1>3. a \in Int /\ Row \in Nat \ {0} /\ MaxAddr \in Nat /\ Exact
  BY AlignedAddress, ViewAssumption DEF Exact
<1> HIDE DEF page, a
<1>4. \A x \in Shown(s.lines) : x \in All
  <2> SUFFICES ASSUME NEW x \in Shown(s.lines) PROVE x \in All
    OBVIOUS
  <2>1. x \in Lines /\ x.addr \in Int
    BY <1>2, LinesTyped
  <2>2. x = Line(x.addr, "row", Row)
    BY <1>2, <2>1 DEF Line, Lines
  <2> QED
    BY <1>2, <2>1, <2>2, RowIs
<1>5. \A m \in All : a <= m.addr /\ m.addr < s.cur => m \in Shown(s.lines)
  <2> SUFFICES ASSUME NEW m \in All, a <= m.addr, m.addr < s.cur PROVE m \in Shown(s.lines)
    OBVIOUS
  <2>1. m.addr \in Int /\ in_segment(m.addr) /\ Aligned(m.addr) /\ m = Line(m.addr, "row", Row)
    BY RowIs, ViewAssumption DEF Address
  <2>2. PICK x \in Shown(s.lines) : x.addr <= m.addr /\ m.addr < x.addr + Row
    BY <1>2, <2>1
  <2>3. x \in All /\ x.addr \in Int /\ Aligned(x.addr) /\ x = Line(x.addr, "row", Row)
    BY <1>2, <1>4, LinesTyped, RowIs
  <2>4. ~(x.addr < m.addr)
    <3>1. x.addr \in Int /\ m.addr \in Int /\ Aligned(x.addr) /\ Aligned(m.addr)
      BY <2>1, <2>3
    <3>2. x.addr < m.addr => x.addr + Row <= m.addr
      BY <3>1, AlignIs
    <3> QED
      BY <1>3, <2>2, <3>1, <3>2
  <2> QED
    BY <2>1, <2>2, <2>3, <2>4
<1>6. \A m \in All : m.addr \in Int /\ in_segment(m.addr) /\ m.addr <= MaxAddr
  BY RowIs, ViewAssumption DEF Address
<1>7. CASE page.has_more
  <2>1. PICK n \in Int : n = next_seg_start(s.cur) /\ s.cur <= n /\ in_segment(n)
    BY <1>1, <1>2, <1>3, <1>7, NextMapped DEF Address
  <2>2. s.cur <= Align(n) /\ in_segment(Align(n)) /\ Aligned(Align(n)) /\ Align(n) \in Int
    <3>1. Align(n) \in Int /\ Aligned(Align(n)) /\ Align(n) <= n /\ n < Align(n) + Row
      BY AlignIs
    <3>2. Align(n) < s.cur => Align(n) + Row <= s.cur
      BY <1>2, <3>1, AlignIs
    <3> QED
      BY <1>2, <1>3, <2>1, <3>1, <3>2, RegularRows
  <2>3. Line(Align(n), "row", Row) \in All
    BY <2>2, RowIs
  <2>4. \E m \in All : s.cur <= m.addr
    BY <2>2, <2>3 DEF Line
  <2> QED
    BY <1>1, <1>2, <1>3, <1>4, <1>5, <1>7, <2>4 DEF Ahead, Legit, page, a
<1>8. CASE ~page.has_more
  <2>1. \A b \in Int : s.cur <= b => ~in_segment(b)
    BY <1>1, <1>8
  <2>2. PICK e \in Int : s.cur <= e /\ a < e /\ MaxAddr < e
    BY <1>2, <1>3, Beyond
  <2>3. \A m \in All : m.addr < s.cur /\ m.addr < e
    BY <1>2, <1>6, <2>1, <2>2
  <2>4. \A x \in Shown(s.lines) : x \in All /\ a <= x.addr /\ x.addr < e
    BY <1>2, <1>4, <2>3
  <2>5. \A m \in All : ~(e <= m.addr)
    BY <1>6, <2>3
  <2> QED
    BY <1>1, <1>2, <1>5, <1>8, <2>2, <2>3, <2>4, <2>5 DEF Ahead, Legit, page, a
<1> QED
  BY <1>7, <1>8

-----------------------------------------------------------------------------
(* hex_view, backward. *)

\* Where the loop is left.
HexBackwardOver ==
  {s \in Listing : s.left = 0 \/ s.cur < min_ea \/ prev_seg_addr(s.cur) = BADADDR}

\* In segments made of rows: a page has every row that the scan passed.
HexBackwardInv(a, count) ==
  {s \in Listing :
     /\ s.cur <= a /\ s.left <= count /\ (s.left < count => s.cur < a)
     /\ Aligned(s.cur) /\ InOrder(s.lines)
     /\ \A x \in Shown(s.lines) : x \in All /\ s.cur < x.addr /\ x.addr <= a
     /\ \A m \in All : s.cur < m.addr /\ m.addr <= a => m \in Shown(s.lines)}

\* Back over a gap, to the last row before it.
LEMMA PreviousRow ==
  ASSUME Valid, Regular, NEW a \in Int, Aligned(a)
  PROVE  LET p == prev_seg_addr(a) IN
         /\ in_segment(a) => p = a
         /\ p = BADADDR => \A b \in Int : b <= a => ~in_segment(b)
         /\ p # BADADDR => /\ p \in Int /\ p <= a /\ in_segment(p) /\ Aligned(p)
         /\ ~in_segment(a) /\ p # BADADDR =>
              /\ p < a /\ \A b \in Int : p < b /\ b <= a /\ Aligned(b) => ~in_segment(b)
<1>1. CASE in_segment(a)
  BY <1>1, Mapped DEF prev_seg_addr, Address, BADADDR
<1>2. CASE ~in_segment(a)
  <2> DEFINE q == get_prev_seg(a)
             f == EndOf(q)
  <2>1. CASE q = BADADDR
    BY <1>2, <2>1, PreviousSegment DEF prev_seg_addr
  <2>2. CASE q # BADADDR
    <3>1. /\ q < f /\ f <= a /\ \A b \in Int : f <= b /\ b <= a => ~in_segment(b)
          /\ \E i \in 1..Len(segments) : q = segments[i].first /\ f = segments[i].end
      BY <1>2, <2>2, PreviousSegment
    <3> HIDE DEF f
    <3>2. PICK i \in 1..Len(segments) : q = segments[i].first /\ f = segments[i].end
      BY <3>1
    <3>3. q \in Nat /\ f \in Nat /\ Aligned(q) /\ Aligned(f) /\ Row \in Nat \ {0}
      BY <3>2, Segments, RegularRows, ViewAssumption
    <3>4. f - Row \in Int /\ Aligned(f - Row)
      BY <3>3, AlignIs
    <3>5. Align(f - Row) = f - Row
      <4> DEFINE g == f - Row
      <4> HIDE DEF g
      <4>1. g \in Int /\ Aligned(g)
        BY <3>4 DEF g
      <4>2. Align(g) \in Int /\ Aligned(Align(g)) /\ Align(g) <= g /\ g < Align(g) + Row
        BY <4>1, AlignIs
      <4>3. Align(g) < g => Align(g) + Row <= g
        BY <4>1, <4>2, AlignIs
      <4>4. Align(g) = g
        BY <3>3, <4>1, <4>2, <4>3
      <4> QED
        BY <4>4 DEF g
    <3>6. q + Row <= f
      <4> HIDE DEF q
      <4> QED
        BY <3>1, <3>3, Apart
    <3>7. in_segment(f - Row) /\ f - Row >= 0
      BY <3>2, <3>3, <3>6 DEF in_segment
    <3>8. prev_seg_addr(a) = f - Row
      BY <1>2, <2>2, <3>5 DEF prev_seg_addr, f
    <3>9. ASSUME NEW b \in Int, f - Row < b, b <= a, Aligned(b) PROVE ~in_segment(b)
      <4> DEFINE g == f - Row
      <4> HIDE DEF g
      <4>0. g \in Int /\ Aligned(g) /\ g < b
        BY <3>4, <3>9 DEF g
      <4>1. g + Row <= b
        BY <3>9, <4>0, Apart
      <4> QED
        BY <3>1, <3>3, <3>9, <4>1 DEF g
    <3> QED
      BY <1>2, <3>1, <3>3, <3>4, <3>7, <3>8, <3>9 DEF BADADDR
  <2> QED
    BY <2>1, <2>2
<1> QED
  BY <1>1, <1>2

\* A turn keeps that, and goes down.
LEMMA HexBackwardTurn ==
  ASSUME Valid, view = "hex", Regular, NEW a \in Int, NEW count \in Nat,
         NEW s \in HexBackwardInv(a, count), s \notin HexBackwardOver
  PROVE  LET t == HexBackward[s] IN
         t \in HexBackwardInv(a, count) /\ s.cur \in Int /\ t.cur \in Int /\ t.cur < s.cur
<1>1. s \in Listing
  BY DEF HexBackwardInv
<1>2. s.cur \in Int /\ s.left \in Nat /\ s.lines \in Seq(Lines) /\ Aligned(s.cur)
  BY <1>1 DEF Listing, HexBackwardInv
<1>3. s.left # 0 /\ s.cur >= min_ea /\ prev_seg_addr(s.cur) # BADADDR
  BY <1>1, <1>2, Segments DEF HexBackwardOver
<1>4. Row \in Nat \ {0} /\ min_ea \in Nat
  BY ViewAssumption, Segments
<1> DEFINE t == HexBackward[s]
           p == prev_seg_addr(s.cur)
           row == Line(s.cur, "row", Row)
<1>5. t = IF in_segment(s.cur)
          THEN [cur |-> s.cur - Row, left |-> s.left - 1, lines |-> <<row>> \o s.lines]
          ELSE [s EXCEPT !.cur = p]
  BY <1>1, <1>2, <1>3, <1>4 DEF HexBackward
<1>0. \A m \in All : /\ m.addr \in Int /\ Aligned(m.addr) /\ in_segment(m.addr)
                     /\ m = Line(m.addr, "row", Row)
  BY RowIs, ViewAssumption DEF Address
<1> HIDE DEF t
<1>6. CASE in_segment(s.cur)
  <2> DEFINE one == <<row>>
  <2>1. row \in Lines /\ row.addr = s.cur
    BY <1>2, <1>4 DEF Line, Lines
  <2>2. row \in All
    BY <1>2, <1>6, RowIs
  <2>3. one \in Seq(Lines) /\ Shown(one) = {row} /\ InOrder(one)
    BY <2>1, OneLine
  <2>4. row = Line(s.cur, "row", Row)
    OBVIOUS
  <2> HIDE DEF one, row
  <2> DEFINE u == one \o s.lines
  <2>5. u \in Seq(Lines) /\ Shown(u) = Shown(s.lines) \cup {row}
    BY <1>2, <2>3, Joined
  <2>6. InOrder(u)
    <3>1. \A x \in Shown(s.lines) : Before(row, x)
      BY <2>1 DEF HexBackwardInv, Before
    <3>2. InOrder(s.lines)
      BY DEF HexBackwardInv
    <3> QED
      BY <1>2, <2>3, <3>1, <3>2, JoinedInOrder
  <2> HIDE DEF u
  <2>7. t = [cur |-> s.cur - Row, left |-> s.left - 1, lines |-> u]
    BY <1>5, <1>6 DEF u, one
  <2>8. t.cur = s.cur - Row /\ t.left = s.left - 1 /\ t.lines = u /\ t \in Listing
    BY <1>2, <1>3, <1>4, <2>5, <2>7 DEF Listing
  <2>9. t.cur <= a /\ t.left <= count /\ t.cur < a /\ s.cur <= a /\ Aligned(t.cur)
    <3>1. Aligned(s.cur - Row)
      BY <1>2, NextAligned
    <3>2. s.cur <= a /\ s.left <= count
      BY DEF HexBackwardInv
    <3> QED
      BY <1>2, <1>3, <1>4, <2>8, <3>1, <3>2
  <2>10. \A x \in Shown(u) : x \in All /\ t.cur < x.addr /\ x.addr <= a
    BY <1>0, <1>2, <1>4, <2>1, <2>2, <2>5, <2>8, <2>9 DEF HexBackwardInv
  <2>11. \A m \in All : t.cur < m.addr /\ m.addr <= a => m \in Shown(u)
    <3> SUFFICES ASSUME NEW m \in All, t.cur < m.addr, m.addr <= a PROVE m \in Shown(u)
      OBVIOUS
    <3>1. CASE s.cur < m.addr
      BY <2>5, <3>1 DEF HexBackwardInv
    <3>2. CASE m.addr = s.cur
      BY <1>0, <2>4, <2>5, <3>2
    <3>3. CASE m.addr < s.cur
      <4>1. m.addr + Row <= s.cur
        BY <1>0, <1>2, <3>3, AlignIs
      <4> QED
        BY <1>0, <1>2, <1>4, <2>8, <4>1
    <3> QED
      BY <1>0, <1>2, <3>1, <3>2, <3>3
  <2>12. t \in HexBackwardInv(a, count)
    BY <2>6, <2>8, <2>9, <2>10, <2>11 DEF HexBackwardInv
  <2> QED
    BY <1>2, <1>4, <2>8, <2>12 DEF t
<1>7. CASE ~in_segment(s.cur)
  <2>1. /\ p \in Int /\ p < s.cur /\ Aligned(p)
        /\ \A b \in Int : p < b /\ b <= s.cur /\ Aligned(b) => ~in_segment(b)
    BY <1>2, <1>3, <1>7, PreviousRow
  <2> HIDE DEF p
  <2>2. t.cur = p /\ t.left = s.left /\ t.lines = s.lines /\ t \in Listing
    BY <1>1, <1>2, <1>5, <1>7, <2>1 DEF Listing
  <2>3. \A x \in Shown(s.lines) : x \in All /\ p < x.addr /\ x.addr <= a
    BY <1>0, <1>2, <2>1 DEF HexBackwardInv
  <2>4. \A m \in All : p < m.addr /\ m.addr <= a => m \in Shown(s.lines)
    BY <1>0, <1>2, <2>1 DEF HexBackwardInv
  <2>5. p <= a /\ s.left <= count /\ (s.left < count => p < a)
    BY <1>2, <2>1 DEF HexBackwardInv
  <2>6. t \in HexBackwardInv(a, count)
    BY <2>1, <2>2, <2>3, <2>4, <2>5 DEF HexBackwardInv
  <2> QED
    BY <1>2, <2>1, <2>2, <2>6 DEF t
<1> QED
  BY <1>6, <1>7

\* A loop over addresses that goes down from one of the image's is over in time, and so
\* is one that goes up.
LEMMA LoopDescends ==
  ASSUME NEW I, NEW turn, NEW from \in I, NEW Over,
         \A s \in I : s.cur \in Int, from \in Over \/ from.cur <= MaxAddr,
         \A s \in I : s \in Over => turn[s] = s,
         \A s \in I : s \notin Over => turn[s] \in I /\ turn[s].cur < s.cur /\ s.cur >= 0
  PROVE  Loop(turn, from)[Turns] \in I \cap Over
<1> DEFINE variant == [s \in I |-> MaxAddr - s.cur]
<1>1. MaxAddr \in Nat /\ Row \in Nat \ {0}
  BY ViewAssumption
<1>2. variant \in [I -> Int] /\ (from \in Over \/ variant[from] >= 0)
  BY <1>1
<1>3. \A s \in I : s \notin Over => variant[s] < Turns
  BY <1>1, TurnsIs
<1>4. \A s \in I : turn[s] \in I /\ (s \in Over => turn[s] \in Over)
  OBVIOUS
<1>5. \A s \in I : s \notin Over /\ turn[s] \notin Over => variant[turn[s]] > variant[s]
  BY <1>1, <1>4
<1> HIDE DEF variant
<1>6. Progresses(I, turn, Over, variant, Turns)
  BY <1>2, <1>3, <1>4, <1>5 DEF Progresses
<1> QED
  BY <1>2, <1>6, TurnsIs, LoopEnds

\* A loop over addresses that goes up to the last.
LEMMA LoopAscends ==
  ASSUME NEW I, NEW turn, NEW from \in I, NEW Over,
         \A s \in I : s.cur \in Int, from \in Over \/ from.cur >= 0,
         \A s \in I : s \in Over => turn[s] = s,
         \A s \in I : s \notin Over => turn[s] \in I /\ s.cur <= MaxAddr /\
           (turn[s] \notin Over => turn[s].cur > s.cur)
  PROVE  Loop(turn, from)[Turns] \in I \cap Over
<1> DEFINE variant == [s \in I |-> s.cur]
<1>1. MaxAddr \in Nat /\ Row \in Nat \ {0}
  BY ViewAssumption
<1>2. variant \in [I -> Int] /\ (from \in Over \/ variant[from] >= 0)
  BY <1>1
<1>3. \A s \in I : s \notin Over => variant[s] < Turns
  BY <1>1, TurnsIs
<1>4. \A s \in I : turn[s] \in I /\ (s \in Over => turn[s] \in Over)
  OBVIOUS
<1>5. \A s \in I : s \notin Over /\ turn[s] \notin Over => variant[turn[s]] > variant[s]
  BY <1>1, <1>4
<1> HIDE DEF variant
<1>6. Progresses(I, turn, Over, variant, Turns)
  BY <1>2, <1>3, <1>4, <1>5 DEF Progresses
<1> QED
  BY <1>2, <1>6, TurnsIs, LoopEnds

\* The scan ends.
LEMMA HexBackwardEnds ==
  ASSUME Valid, view = "hex", Regular, NEW a \in Address, Aligned(a), NEW count \in Nat
  PROVE  Listed(HexBackward, a, count) \in HexBackwardInv(a, count) \cap HexBackwardOver
<1> DEFINE I == HexBackwardInv(a, count)
           from == Start(a, count)
<1>1. \A s \in I : s \in Listing /\ s.cur \in Int
  BY DEF HexBackwardInv, Listing
<1>2. a \in Int /\ a <= MaxAddr /\ min_ea \in Nat
  BY Segments, ViewAssumption DEF Address
<1>3. from \in I /\ from.cur = a
  <2>1. from \in Listing /\ from.cur = a /\ from.left = count /\ from.lines = << >>
    BY <1>2, StartTyped DEF Start
  <2>2. Shown(from.lines) = {} /\ InOrder(from.lines)
    BY <2>1, NoLines
  <2>3. \A m \in All : m.addr \in Int
    BY RowIs, ViewAssumption DEF Address
  <2> HIDE DEF from
  <2> QED
    BY <1>2, <2>1, <2>2, <2>3 DEF HexBackwardInv
<1>4. \A s \in I : s \in HexBackwardOver => HexBackward[s] = s
  BY DEF HexBackwardOver, HexBackward
<1>5. \A s \in I : s \notin HexBackwardOver => HexBackward[s] \in I /\ HexBackward[s].cur < s.cur
  BY <1>2, HexBackwardTurn
<1>6. \A s \in I : s \notin HexBackwardOver => s.cur >= 0
  BY <1>1, <1>2 DEF HexBackwardOver
<1> HIDE DEF I, from
<1>7. Loop(HexBackward, from)[Turns] \in I \cap HexBackwardOver
  BY <1>1, <1>2, <1>3, <1>4, <1>5, <1>6, LoopDescends
<1> QED
  BY <1>7, StartIs DEF I, from

\* hex_view goes back as the panel needs it.
LEMMA HexBehind ==
  ASSUME Valid, view = "hex", Regular, NEW addr \in Address, NEW count \in Nat \ {0}
  PROVE  Behind(hex_view(addr, count, "backward"), Align(addr))
<1> DEFINE page == hex_view(addr, count, "backward")
           a == Align(addr)
           s == Listed(HexBackward, a, count)
<1>1. addr \in Nat /\ addr <= MaxAddr /\ MaxAddr \in Nat
  BY ViewAssumption DEF Address
<1>2. a \in Address /\ Aligned(a)
  BY <1>1, AlignedAddress DEF Address
<1>3. s \in HexBackwardInv(a, count) \cap HexBackwardOver
  BY <1>2, HexBackwardEnds
<1>4. page.lines = s.lines /\ (page.has_more <=> s.cur >= min_ea /\ prev_seg_addr(s.cur) # BADADDR)
  BY DEF hex_view
<1> HIDE DEF page, a, s
<1>5. /\ s.cur \in Int /\ s.left \in Nat /\ s.lines \in Seq(Lines) /\ InOrder(s.lines)
      /\ s.cur <= a /\ (s.left < count => s.cur < a) /\ Aligned(s.cur)
      /\ \A x \in Shown(s.lines) : x \in All /\ s.cur < x.addr /\ x.addr <= a
      /\ \A m \in All : s.cur < m.addr /\ m.addr <= a => m \in Shown(s.lines)
  BY <1>3 DEF HexBackwardInv, Listing
<1>6. \A m \in All : m.addr \in Int /\ Aligned(m.addr) /\ in_segment(m.addr)
  BY RowIs, ViewAssumption DEF Address
<1>7. min_ea \in Int /\ a \in Int
  BY <1>1, <1>2, Segments DEF Address
<1>8. CASE page.has_more
  <2>1. s.cur < a
    BY <1>3, <1>4, <1>5, <1>7, <1>8 DEF HexBackwardOver
  <2> DEFINE p == prev_seg_addr(s.cur)
  <2>2. p \in Int /\ p <= s.cur /\ in_segment(p) /\ Aligned(p)
    BY <1>4, <1>5, <1>8, PreviousRow
  <2> HIDE DEF p
  <2>3. Line(p, "row", Row) \in All
    BY <2>2, RowIs
  <2>4. \E m \in All : m.addr <= s.cur
    BY <2>2, <2>3 DEF Line
  <2> QED
    BY <1>4, <1>5, <1>8, <2>1, <2>4 DEF Behind, Legit, page, a
<1>9. CASE ~page.has_more
  <2>1. \A b \in Int : b <= s.cur => ~in_segment(b)
    <3>1. CASE s.cur >= min_ea
      BY <1>4, <1>5, <1>9, <3>1, PreviousRow
    <3>2. CASE ~(s.cur >= min_ea)
      <4>1. \A b \in Int : in_segment(b) => min_ea <= b
        BY Mapped
      <4> QED
        BY <1>5, <1>7, <3>2, <4>1
    <3> QED
      BY <3>1, <3>2
  <2>2. PICK e \in Int : e <= s.cur /\ e < a /\ e < 0
    BY <1>5, <1>7, Beyond
  <2>3. \A m \in All : s.cur < m.addr /\ e < m.addr
    BY <1>5, <1>6, <2>1, <2>2
  <2>4. \A m \in All : ~(m.addr <= e)
    BY <1>6, <2>2, <2>3
  <2>5. \A x \in Shown(s.lines) : x \in All /\ e < x.addr /\ x.addr <= a
    BY <1>5, <2>3
  <2>6. \A m \in All : e < m.addr /\ m.addr <= a => m \in Shown(s.lines)
    BY <1>5, <2>3
  <2> QED
    BY <1>4, <1>5, <1>9, <2>2, <2>4, <2>5, <2>6 DEF Behind, Legit, page, a
<1> QED
  BY <1>8, <1>9

-----------------------------------------------------------------------------
(* linear_view: its lines. *)

\* The segments around an address.
LEMMA SegmentAfter ==
  ASSUME Valid, NEW a \in Int
  PROVE  LET n == get_next_seg(a) IN
         n # BADADDR => /\ n \in Address /\ a < n /\ in_segment(n)
                        /\ \E i \in 1..Len(segments) : segments[i].first = n
<1> DEFINE S == {segments[i].first : i \in {j \in 1..Len(segments) : segments[j].first > a}}
           n == Least(S)
<1>1. S \in SUBSET Nat
  BY Segments
<1>2. ASSUME NEW x \in S
      PROVE  /\ x \in Address /\ a < x /\ in_segment(x)
             /\ \E i \in 1..Len(segments) : segments[i].first = x
  <2>1. PICK i \in 1..Len(segments) : segments[i].first > a /\ x = segments[i].first
    OBVIOUS
  <2>2. in_segment(x) /\ x \in Nat
    BY <2>1, Segments DEF in_segment
  <2> QED
    BY <2>1, <2>2, Mapped
<1>3. get_next_seg(a) = n
  BY DEF get_next_seg
<1> HIDE DEF S
<1>4. n = BADADDR \/ n \in S
  BY <1>1, LeastIs
<1> HIDE DEF n
<1> QED
  BY <1>2, <1>3, <1>4

\* The segment before an address, mapped or not.
LEMMA SegmentBefore ==
  ASSUME Valid, NEW a \in Int
  PROVE  LET p == get_prev_seg(a) IN
         p # BADADDR => /\ p \in Address /\ p < a /\ in_segment(p)
                        /\ \E i \in 1..Len(segments) : segments[i].first = p
<1> DEFINE S == {segments[i].first : i \in {j \in 1..Len(segments) : segments[j].end <= a}}
           p == Greatest(S)
<1>1. S \in SUBSET (0..MaxAddr) /\ MaxAddr \in Nat
  BY Segments
<1>2. ASSUME NEW x \in S
      PROVE  /\ x \in Address /\ x < a /\ in_segment(x)
             /\ \E i \in 1..Len(segments) : segments[i].first = x
  <2>1. PICK i \in 1..Len(segments) : segments[i].end <= a /\ x = segments[i].first
    OBVIOUS
  <2>2. in_segment(x) /\ x \in Nat /\ x < a
    BY <2>1, Segments DEF in_segment
  <2> QED
    BY <2>1, <2>2, Mapped
<1>3. get_prev_seg(a) = p
  BY DEF get_prev_seg
<1> HIDE DEF S
<1>4. p = BADADDR \/ p \in S
  BY <1>1, GreatestIs
<1> HIDE DEF p
<1> QED
  BY <1>2, <1>3, <1>4

\* Unexplored bytes are put together up to the next head.
LEMMA RunEndIs ==
  ASSUME Valid, NEW a \in Int, in_segment(a)
  PROVE  /\ RunEnd(a) \in Nat /\ a < RunEnd(a)
         /\ \A b \in Int : a < b /\ b < RunEnd(a) => ~is_head(b)
<1> DEFINE S == {b \in a + 1..MaxAddr + 1 : is_head(b) \/ ~in_segment(b)}
<1>1. a \in Address /\ a \in Nat /\ a <= MaxAddr /\ MaxAddr \in Nat
  BY Mapped, ViewAssumption DEF Address
<1>2. S \in SUBSET Nat
  BY <1>1
<1>3. MaxAddr + 1 \in S
  <2>1. ~in_segment(MaxAddr + 1)
    BY <1>1, Mapped DEF Address
  <2> QED
    BY <1>1, <2>1
<1>4. RunEnd(a) = Least(S)
  BY DEF RunEnd
<1>5. \A b \in Int : a < b /\ is_head(b) => b \in S
  <2>1. \A b : is_head(b) => b <= MaxAddr
    BY <1>1, HeadIs DEF Address
  <2> QED
    BY <1>1, <2>1
<1>6. \A b \in S : a < b
  BY <1>1
<1> HIDE DEF S
<1>7. RunEnd(a) \in S /\ \A b \in S : RunEnd(a) <= b
  BY <1>2, <1>3, <1>4, LeastIs
<1>8. RunEnd(a) \in Nat /\ a < RunEnd(a)
  BY <1>2, <1>6, <1>7
<1>9. ASSUME NEW b \in Int, a < b, b < RunEnd(a), is_head(b) PROVE FALSE
  <2>1. RunEnd(a) <= b
    BY <1>5, <1>7, <1>9
  <2> QED
    BY <1>8, <1>9, <2>1
<1> QED
  BY <1>8, <1>9

\* The line at a mapped address: it has a head only where it begins.
LEMMA LineIs ==
  ASSUME Valid, NEW a \in Int, in_segment(a)
  PROVE  LET l == _emit_line(a) IN
         /\ l \in Lines /\ l.addr = a /\ l.size \in Nat \ {0}
         /\ is_head(a) => l.what = "item" /\ l.size = Item(a).size
         /\ ~is_head(a) => l.what = "unknown" /\ Unseen(l)
         /\ \A b \in Int : a < b /\ b < a + l.size => ~is_head(b)
<1> DEFINE l == _emit_line(a)
<1>1. CASE is_head(a)
  <2> DEFINE z == Item(a).size
  <2>1. z \in Nat \ {0} /\ \A b \in Int : a < b /\ b < a + z => ~is_head(b)
    BY <1>1, HeadIs
  <2>2. l = [addr |-> a, what |-> "item", size |-> z]
    BY <1>1 DEF _emit_line, Line
  <2> HIDE DEF z, l
  <2>3. l \in Lines /\ l.addr = a /\ l.what = "item" /\ l.size = z
    BY <2>1, <2>2 DEF Lines
  <2> QED
    BY <1>1, <2>1, <2>3 DEF l, z
<1>2. CASE ~is_head(a)
  <2> DEFINE e == RunEnd(a)
             z == IF e - a >= Run THEN e - a ELSE 1
  <2>1. e \in Nat /\ a < e /\ \A b \in Int : a < b /\ b < e => ~is_head(b)
    BY RunEndIs
  <2>2. l = [addr |-> a, what |-> "unknown", size |-> z]
    BY <1>2 DEF _emit_line, Line
  <2> HIDE DEF e, l
  <2>3. z \in Nat \ {0} /\ a + z <= e
    BY <2>1
  <2> HIDE DEF z
  <2>4. \A b \in Int : a < b /\ b < a + z => ~is_head(b)
    BY <2>1, <2>3
  <2>5. l \in Lines /\ l.addr = a /\ l.what = "unknown" /\ l.size = z
    BY <2>2, <2>3 DEF Lines
  <2>6. Unseen(l)
    <3>1. \A b \in Int : a <= b /\ b < a + z => ~is_head(b)
      BY <1>2, <2>4
    <3> QED
      BY <2>3, <2>5, <3>1 DEF Unseen
  <2> QED
    BY <1>2, <2>3, <2>4, <2>5, <2>6 DEF l
<1> QED
  BY <1>1, <1>2

\* The items and the headers there are.
LEMMA HeadLines ==
  ASSUME Valid, view # "hex"
  PROVE  /\ \A m \in All : is_head(m.addr) /\ m.addr \in Address
                           /\ \/ m = _emit_line(m.addr)
                              \/ m.addr \in funcs /\ m = Line(m.addr, "header", 1)
         /\ \A a : is_head(a) => _emit_line(a) \in All
         /\ \A a \in funcs : is_head(a) /\ Line(a, "header", 1) \in All
<1>1. All = Items \cup Headers
  BY DEF All
<1>2. \A a \in funcs : is_head(a)
  BY DEF Valid, WellFormed, is_head
<1>3. \A a : is_head(a) => in_segment(a) /\ a \in Address /\ a \in Int
  BY HeadIs, ViewAssumption DEF Address
<1>4. \A a : is_head(a) => _emit_line(a) \in Items /\ _emit_line(a).addr = a
  <2> SUFFICES ASSUME NEW a, is_head(a) PROVE _emit_line(a) \in Items /\ _emit_line(a).addr = a
    OBVIOUS
  <2>1. PICK t \in items : t.at = a
    BY DEF is_head
  <2> QED
    BY <1>3, <2>1, LineIs DEF Items
<1>5. ASSUME NEW m \in Items PROVE is_head(m.addr) /\ m = _emit_line(m.addr)
  <2>1. PICK t \in items : m = _emit_line(t.at)
    BY DEF Items
  <2>2. is_head(t.at)
    BY DEF is_head
  <2> QED
    BY <1>4, <2>1, <2>2
<1>6. ASSUME NEW m \in Headers PROVE m.addr \in funcs /\ m = Line(m.addr, "header", 1)
  BY DEF Headers, Line
<1> QED
  BY <1>1, <1>2, <1>3, <1>4, <1>5, <1>6 DEF Headers

\* The lines at an address, a function's header first.
LEMMA LinesAtIs ==
  ASSUME Valid, view # "hex", NEW a \in Int, in_segment(a)
  PROVE  LET s == LinesAt(a) IN
         /\ s \in Seq(Lines) /\ InOrder(s)
         /\ \A x \in Shown(s) : x.addr = a /\ (is_head(a) => x \in All)
                                /\ (~is_head(a) => Unseen(x))
         /\ \A m \in All : m.addr = a => m \in Shown(s)
<1> DEFINE l == _emit_line(a)
           h == Line(a, "header", 1)
           one == <<l>>
           two == <<h>>
<1>1. l \in Lines /\ l.addr = a /\ (~is_head(a) => Unseen(l)) /\ l.what \in {"item", "unknown"}
  BY LineIs
<1>2. h \in Lines /\ h.addr = a /\ h.what = "header"
  BY DEF Line, Lines
<1>3. is_head(a) => l \in All
  BY HeadLines
<1>4. a \in funcs => is_head(a) /\ h \in All
  BY HeadLines
<1>5. \A m \in All : m.addr = a => m = l \/ (a \in funcs /\ m = h)
  BY HeadLines
<1>6. LinesAt(a) = Header(a) \o one /\ Header(a) = IF a \in funcs THEN two ELSE << >>
  BY DEF LinesAt, Header
<1>7. one \in Seq(Lines) /\ Shown(one) = {l} /\ InOrder(one)
  BY <1>1, OneLine
<1>8. two \in Seq(Lines) /\ Shown(two) = {h} /\ InOrder(two)
  BY <1>2, OneLine
<1>9. << >> \o one = one
  BY <1>7, Joined, NoLines
<1> HIDE DEF l, h, one, two
<1>10. CASE a \in funcs
  <2>1. two \o one \in Seq(Lines) /\ Shown(two \o one) = {h, l}
    BY <1>7, <1>8, Joined
  <2>2. Before(h, l)
    BY <1>1, <1>2 DEF Before
  <2>3. InOrder(two \o one)
    BY <1>7, <1>8, <2>2, JoinedInOrder
  <2>4. LinesAt(a) = two \o one
    BY <1>6, <1>10
  <2> QED
    BY <1>1, <1>2, <1>3, <1>4, <1>5, <1>10, <2>1, <2>3, <2>4
<1>11. CASE a \notin funcs
  <2>1. LinesAt(a) = one
    BY <1>6, <1>9, <1>11
  <2> QED
    BY <1>1, <1>3, <1>5, <1>7, <1>11, <2>1
<1> QED
  BY <1>10, <1>11

\* Where everything is explored, an item begins where none goes on.
LEMMA ExploredHead ==
  ASSUME Valid, Explored, NEW a \in Int, in_segment(a),
         \A t \in items : t.at < a => t.at + t.size <= a
  PROVE  is_head(a)
<1>1. a \in Address
  BY Mapped
<1>2. PICK t \in items : t.at <= a /\ a < t.at + t.size
  BY <1>1 DEF Explored
<1>3. t.at \in Nat /\ t.size \in Nat
  BY DEF Valid, WellFormed
<1>4. t.at = a
  BY <1>2, <1>3
<1> QED
  BY <1>4 DEF is_head

\* A segment begins with a head.
LEMMA ExploredFirst ==
  ASSUME Valid, Explored, NEW i \in 1..Len(segments)
  PROVE  is_head(segments[i].first)
<1> DEFINE a == segments[i].first
<1>1. a \in Nat /\ in_segment(a)
  BY Segments DEF in_segment
<1>2. ASSUME NEW t \in items, t.at < a PROVE t.at + t.size <= a
  <2>1. PICK j \in 1..Len(segments) : segments[j].first <= t.at /\ t.at + t.size <= segments[j].end
    BY DEF Valid, WellFormed
  <2>2. t.at \in Nat /\ t.size \in Nat
    BY DEF Valid, WellFormed
  <2>3. segments[j].first < segments[i].first
    BY <1>1, <1>2, <2>1, <2>2, Segments
  <2>4. j < i
    BY <2>3, Segments
  <2> QED
    BY <1>1, <2>1, <2>2, <2>4, Segments
<1> QED
  BY <1>1, <1>2, ExploredHead

\* After an item.
LEMMA ExploredNext ==
  ASSUME Valid, Explored, NEW a, is_head(a), in_segment(a + Item(a).size)
  PROVE  is_head(a + Item(a).size)
<1> DEFINE u == Item(a)
           n == a + u.size
<1>1. a \in Nat /\ u \in items /\ u.at = a /\ u.size \in Nat \ {0}
  BY HeadIs, ViewAssumption DEF Address
<1> HIDE DEF u
<1>2. ASSUME NEW t \in items, t.at < n PROVE t.at + t.size <= n
  <2>1. t.at \in Nat /\ t.size \in Nat \ {0}
    BY DEF Valid, WellFormed
  <2>2. t # u => t.at + t.size <= u.at \/ u.at + u.size <= t.at
    BY <1>1 DEF Valid, WellFormed
  <2> QED
    BY <1>1, <1>2, <2>1, <2>2
<1> HIDE DEF n
<1>3. n \in Int
  BY <1>1 DEF n
<1>4. in_segment(n)
  BY DEF n, u
<1>5. is_head(n)
  BY <1>2, <1>3, <1>4, ExploredHead
<1> QED
  BY <1>5 DEF n, u

-----------------------------------------------------------------------------
(* linear_view, forward. *)

\* The address after a line.
LEMMA AfterIs ==
  ASSUME Valid, NEW a \in Int, in_segment(a)
  PROVE  LET n == After(a, _emit_line(a).size) IN
         /\ n = BADADDR => \A b \in Int : a < b => ~is_head(b)
         /\ n # BADADDR => /\ n \in Nat /\ a < n /\ \A b \in Int : a < b /\ b < n => ~is_head(b)
         /\ Explored /\ is_head(a) /\ n # BADADDR /\ in_segment(n) => is_head(n)
<1> DEFINE z == _emit_line(a).size
           n == After(a, z)
           h == next_head(a, MaxAddr + 1)
           g == get_next_seg(a)
<1>1. /\ z \in Nat \ {0} /\ a \in Nat
      /\ \A b \in Int : a < b /\ b < a + z => ~is_head(b)
      /\ is_head(a) => z = Item(a).size
  BY LineIs, Mapped, ViewAssumption DEF Address
<1>2. MaxAddr \in Nat /\ \A b : is_head(b) => b \in Nat /\ b < MaxAddr + 1
  BY HeadIs, ViewAssumption DEF Address
<1>3. /\ h = BADADDR => \A b \in Int : a < b => ~is_head(b)
      /\ h # BADADDR => /\ is_head(h) /\ h \in Nat /\ a < h
                        /\ \A b \in Int : a < b /\ b < h => ~is_head(b)
  <2>1. MaxAddr + 1 \in Int
    BY <1>2
  <2> QED
    BY <1>2, <2>1, NextHead
<1>4. g # BADADDR => /\ g \in Nat /\ a < g
                     /\ \E i \in 1..Len(segments) : segments[i].first = g
  BY <1>2, SegmentAfter DEF Address
<1>5. n = IF z <= 1 THEN (IF h # BADADDR THEN h ELSE g) ELSE a + z
  BY DEF After, _next_head_skip_gaps
<1> HIDE DEF h, g
<1>6. CASE z <= 1 /\ h # BADADDR
  BY <1>3, <1>5, <1>6
<1>7. CASE z <= 1 /\ h = BADADDR
  BY <1>3, <1>4, <1>5, <1>7, ExploredFirst
<1>8. CASE ~(z <= 1)
  <2>1. n = a + z
    BY <1>5, <1>8
  <2>2. Explored /\ is_head(a) /\ in_segment(a + z) => is_head(a + z)
    <3> HIDE DEF z
    <3> QED
      BY <1>1, ExploredNext
  <2> HIDE DEF z, n
  <2>3. n \in Nat /\ a < n /\ n # BADADDR
    BY <1>1, <2>1 DEF BADADDR
  <2>4. /\ \A b \in Int : a < b /\ b < n => ~is_head(b)
        /\ Explored /\ is_head(a) /\ n # BADADDR /\ in_segment(n) => is_head(n)
    BY <1>1, <2>1, <2>2
  <2> QED
    BY <2>3, <2>4 DEF n, z
<1> QED
  BY <1>6, <1>7, <1>8

\* Where linear_view's loop is left, forward.
LinearForwardOver ==
  {s \in Listing : s.left = 0 \/ s.cur = BADADDR \/ next_seg_start(s.cur) = BADADDR}

\* The scan has passed an address.
Passed(s, b) == s.cur = BADADDR \/ b < s.cur

\* A page has every item and header that the scan passed.
LinearForwardInv(a, count) ==
  {s \in Listing :
     /\ s.cur = BADADDR \/ (s.cur \in Nat /\ a <= s.cur)
     /\ s.left <= count /\ (s.left < count => Passed(s, a))
     /\ InOrder(s.lines)
     /\ \A x \in Shown(s.lines) : Legit(x) /\ a <= x.addr /\ Passed(s, x.addr)
     /\ \A m \in All : a <= m.addr /\ Passed(s, m.addr) => m \in Shown(s.lines)
     /\ Explored => s.cur = BADADDR \/ ~in_segment(s.cur) \/ is_head(s.cur)}

\* A turn keeps that, and goes up or is the last.
LEMMA LinearForwardTurn ==
  ASSUME Valid, view # "hex", NEW a \in Int, NEW count \in Nat,
         NEW s \in LinearForwardInv(a, count), s \notin LinearForwardOver
  PROVE  LET t == LinearForward[s] IN
         /\ t \in LinearForwardInv(a, count) /\ s.cur \in Nat /\ s.cur <= MaxAddr
         /\ t.cur = BADADDR \/ (t.cur \in Nat /\ s.cur < t.cur)
<1>1. s \in Listing /\ InOrder(s.lines)
  BY DEF LinearForwardInv
<1>2. s.cur \in Int /\ s.left \in Nat /\ s.lines \in Seq(Lines)
  BY <1>1 DEF Listing
<1>3. s.left # 0 /\ s.cur # BADADDR /\ next_seg_start(s.cur) # BADADDR
  BY <1>1 DEF LinearForwardOver
<1>4. s.cur \in Nat /\ a <= s.cur
  BY <1>3 DEF LinearForwardInv
<1>5. MaxAddr \in Nat /\ s.cur <= MaxAddr
  BY <1>3, <1>4, NextMapped, ViewAssumption DEF Address
<1> DEFINE t == LinearForward[s]
           l == _emit_line(s.cur)
           n == After(s.cur, l.size)
           g == get_next_seg(s.cur)
           new == LinesAt(s.cur)
<1>6. t = IF in_segment(s.cur)
          THEN [cur |-> n, left |-> s.left - 1, lines |-> s.lines \o new]
          ELSE [s EXCEPT !.cur = g]
  BY <1>1, <1>3 DEF LinearForward
<1>0. Exact <=> Explored
  BY DEF Exact
<1>7. \A m \in All : m.addr \in Int /\ is_head(m.addr)
  BY HeadLines, ViewAssumption DEF Address
<1>8. CASE in_segment(s.cur)
  <2>1. /\ n = BADADDR => \A b \in Int : s.cur < b => ~is_head(b)
        /\ n # BADADDR => /\ n \in Nat /\ s.cur < n
                          /\ \A b \in Int : s.cur < b /\ b < n => ~is_head(b)
        /\ Explored /\ is_head(s.cur) /\ n # BADADDR /\ in_segment(n) => is_head(n)
    BY <1>2, <1>8, AfterIs
  <2>2. /\ new \in Seq(Lines) /\ InOrder(new)
        /\ \A x \in Shown(new) : x.addr = s.cur /\ (is_head(s.cur) => x \in All)
                                 /\ (~is_head(s.cur) => Unseen(x))
        /\ \A m \in All : m.addr = s.cur => m \in Shown(new)
    BY <1>2, <1>8, LinesAtIs
  <2>3. Explored => is_head(s.cur)
    BY <1>3, <1>8 DEF LinearForwardInv
  <2> DEFINE u == s.lines \o new
  <2> HIDE DEF new, n
  <2>4. u \in Seq(Lines) /\ Shown(u) = Shown(s.lines) \cup Shown(new)
    BY <1>2, <2>2, Joined
  <2>5. \A x \in Shown(s.lines) : x.addr \in Int /\ Legit(x) /\ a <= x.addr /\ x.addr < s.cur
    BY <1>2, <1>3, LinesTyped DEF LinearForwardInv, Passed
  <2>6. InOrder(u)
    <3>1. \A x \in Shown(s.lines), y \in Shown(new) : Before(x, y)
      BY <2>2, <2>5 DEF Before
    <3> QED
      BY <1>1, <1>2, <2>2, <3>1, JoinedInOrder
  <2> HIDE DEF u
  <2>7. t = [cur |-> n, left |-> s.left - 1, lines |-> u]
    BY <1>6, <1>8 DEF u
  <2>8. t.cur = n /\ t.left = s.left - 1 /\ t.lines = u /\ n \in Int
    BY <2>1, <2>7 DEF BADADDR
  <2>9. t \in Listing
    BY <1>2, <1>3, <2>4, <2>7, <2>8 DEF Listing
  <2>10. \A b \in Int : b <= s.cur => Passed(t, b)
    BY <1>4, <2>1, <2>8 DEF Passed
  <2>11. \A x \in Shown(u) : Legit(x) /\ a <= x.addr /\ Passed(t, x.addr)
    <3> SUFFICES ASSUME NEW x \in Shown(u) PROVE Legit(x) /\ a <= x.addr /\ Passed(t, x.addr)
      OBVIOUS
    <3>1. CASE x \in Shown(new)
      BY <1>0, <1>4, <2>2, <2>3, <2>10, <3>1 DEF Legit
    <3>2. CASE x \in Shown(s.lines)
      BY <1>4, <2>5, <2>10, <3>2
    <3> QED
      BY <2>4, <3>1, <3>2
  <2>12. \A m \in All : a <= m.addr /\ Passed(t, m.addr) => m \in Shown(u)
    <3> SUFFICES ASSUME NEW m \in All, a <= m.addr, Passed(t, m.addr) PROVE m \in Shown(u)
      OBVIOUS
    <3>1. CASE m.addr < s.cur
      BY <2>4, <3>1 DEF LinearForwardInv, Passed
    <3>2. CASE m.addr = s.cur
      BY <2>2, <2>4, <3>2
    <3>3. CASE s.cur < m.addr
      BY <1>7, <2>1, <2>8, <3>3 DEF Passed
    <3> QED
      BY <1>4, <1>7, <3>1, <3>2, <3>3
  <2>13. t.cur = BADADDR \/ (t.cur \in Nat /\ a <= t.cur /\ s.cur < t.cur)
    BY <1>4, <2>1, <2>8
  <2>14. t.left <= count /\ Passed(t, a)
    <3>1. s.left <= count
      BY DEF LinearForwardInv
    <3> QED
      BY <1>2, <1>4, <2>8, <2>10, <3>1
  <2>15. Explored => t.cur = BADADDR \/ ~in_segment(t.cur) \/ is_head(t.cur)
    BY <2>1, <2>3, <2>8
  <2>16. t \in LinearForwardInv(a, count)
    BY <2>6, <2>8, <2>9, <2>11, <2>12, <2>13, <2>14, <2>15 DEF LinearForwardInv
  <2> QED
    BY <1>4, <1>5, <2>13, <2>16 DEF t
<1>9. CASE ~in_segment(s.cur)
  <2>1. /\ g # BADADDR /\ g \in Nat /\ s.cur < g
        /\ \E i \in 1..Len(segments) : segments[i].first = g
        /\ \A b \in Int : s.cur <= b /\ b < g => ~in_segment(b)
    BY <1>2, <1>3, <1>5, <1>9, NextSegment DEF next_seg_start, Address
  <2>2. \A b \in Int : s.cur <= b /\ b < g => ~is_head(b)
    BY <2>1, HeadIs
  <2>3. Explored => is_head(g)
    BY <2>1, ExploredFirst
  <2> HIDE DEF g
  <2>4. t.cur = g /\ t.left = s.left /\ t.lines = s.lines /\ t \in Listing
    BY <1>1, <1>2, <1>6, <1>9, <2>1 DEF Listing
  <2>5. \A x \in Shown(s.lines) : Legit(x) /\ a <= x.addr /\ Passed(t, x.addr)
    <3>1. \A x \in Shown(s.lines) : x.addr \in Int /\ Legit(x) /\ a <= x.addr /\ x.addr < s.cur
      BY <1>2, <1>3, LinesTyped DEF LinearForwardInv, Passed
    <3> QED
      BY <1>2, <2>1, <2>4, <3>1 DEF Passed
  <2>6. \A m \in All : a <= m.addr /\ Passed(t, m.addr) => m \in Shown(s.lines)
    <3> SUFFICES ASSUME NEW m \in All, a <= m.addr, Passed(t, m.addr) PROVE m \in Shown(s.lines)
      OBVIOUS
    <3>1. m.addr \in Int /\ is_head(m.addr) /\ m.addr < g
      BY <1>7, <2>1, <2>4 DEF Passed
    <3>2. m.addr < s.cur
      BY <1>4, <2>2, <3>1
    <3> QED
      BY <3>2 DEF LinearForwardInv, Passed
  <2>7. a <= g /\ Passed(t, a)
    BY <1>4, <2>1, <2>4 DEF Passed
  <2>8. t.left <= count
    BY <2>4 DEF LinearForwardInv
  <2>9. t \in LinearForwardInv(a, count)
    BY <1>1, <2>1, <2>3, <2>4, <2>5, <2>6, <2>7, <2>8 DEF LinearForwardInv
  <2> QED
    BY <1>4, <1>5, <2>1, <2>4, <2>9 DEF t
<1> QED
  BY <1>8, <1>9

\* linear_view goes on as the panel needs it.
LEMMA LinearAhead ==
  ASSUME Valid, view # "hex", NEW addr \in Int, NEW count \in Nat \ {0}
  PROVE  Ahead(linear_view(addr, count, "forward"), addr)
<1> DEFINE a    == addr
           page == linear_view(a, count, "forward")
           c    == IF is_head(a) THEN a ELSE next_head(a, MaxAddr + 1)
           from == Start(c, count)
           I    == LinearForwardInv(a, count)
           s    == Listed(LinearForward, c, count)
<1>1. MaxAddr \in Nat /\ (\A b : is_head(b) => b \in Nat /\ b < MaxAddr + 1)
      /\ \A m \in All : m.addr \in Nat /\ m.addr <= MaxAddr /\ is_head(m.addr)
  BY HeadIs, HeadLines, ViewAssumption DEF Address
<1>2. /\ c = BADADDR => \A b \in Int : a <= b => ~is_head(b)
      /\ c # BADADDR => /\ c \in Nat /\ a <= c /\ is_head(c)
                        /\ \A b \in Int : a <= b /\ b < c => ~is_head(b)
  <2>1. CASE is_head(a)
    BY <1>1, <2>1 DEF BADADDR
  <2>2. CASE ~is_head(a)
    <3>1. MaxAddr + 1 \in Int
      BY <1>1
    <3> DEFINE h == next_head(a, MaxAddr + 1)
    <3>2. /\ h = BADADDR => \A b \in Int : a < b /\ b < MaxAddr + 1 => ~is_head(b)
          /\ h # BADADDR => /\ is_head(h) /\ h \in Address /\ a < h
                            /\ \A b \in Int : a < b /\ b < h => ~is_head(b)
      BY <3>1, NextHead
    <3>3. c = h
      BY <2>2
    <3> HIDE DEF h, c
    <3> QED
      BY <1>1, <2>2, <3>2, <3>3
  <2> QED
    BY <2>1, <2>2
<1> HIDE DEF c
<1>3. from \in I /\ from.cur = c
  <2>1. c \in Int
    BY <1>2 DEF BADADDR
  <2>2. from \in Listing /\ from.cur = c /\ from.left = count /\ from.lines = << >>
    BY <2>1, StartTyped DEF Start
  <2>3. Shown(from.lines) = {} /\ InOrder(from.lines)
    BY <2>2, NoLines
  <2> HIDE DEF from
  <2>4. \A m \in All : a <= m.addr => ~Passed(from, m.addr)
    BY <1>1, <1>2, <2>2 DEF Passed
  <2> QED
    BY <1>2, <2>2, <2>3, <2>4 DEF LinearForwardInv
<1>4. \A r \in I : r \in LinearForwardOver => LinearForward[r] = r
  BY DEF LinearForwardOver, LinearForward
<1>5. \A r \in I : r \notin LinearForwardOver =>
        /\ LinearForward[r] \in I /\ r.cur <= MaxAddr
        /\ (LinearForward[r] \notin LinearForwardOver => LinearForward[r].cur > r.cur)
  <2> SUFFICES ASSUME NEW r \in I, r \notin LinearForwardOver
               PROVE  /\ LinearForward[r] \in I /\ r.cur <= MaxAddr
                      /\ (LinearForward[r] \notin LinearForwardOver => LinearForward[r].cur > r.cur)
    OBVIOUS
  <2> DEFINE t == LinearForward[r]
  <2>1. /\ t \in I /\ r.cur \in Nat /\ r.cur <= MaxAddr
        /\ t.cur = BADADDR \/ (t.cur \in Nat /\ r.cur < t.cur)
    BY LinearForwardTurn
  <2>2. t \in Listing
    BY <2>1 DEF LinearForwardInv
  <2> HIDE DEF t, I
  <2>3. t \notin LinearForwardOver => t.cur > r.cur
    BY <2>1, <2>2 DEF LinearForwardOver
  <2> QED
    BY <2>1, <2>3 DEF t
<1>6. \A r \in I : r.cur \in Int
  BY DEF LinearForwardInv, Listing
<1>7. from \in LinearForwardOver \/ from.cur >= 0
  <2>1. from \in Listing
    BY <1>3 DEF LinearForwardInv
  <2> HIDE DEF from
  <2> QED
    BY <1>2, <1>3, <2>1 DEF LinearForwardOver
<1>8. s = Loop(LinearForward, from)[Turns]
  BY StartIs
<1>9. page.lines = s.lines /\ (page.has_more <=> s.cur # BADADDR /\ next_seg_start(s.cur) # BADADDR)
  BY DEF linear_view, c
<1> HIDE DEF I, from, s, page
<1>10. s \in I \cap LinearForwardOver
  BY <1>3, <1>4, <1>5, <1>6, <1>7, <1>8, LoopAscends
<1>11. /\ s.lines \in Seq(Lines) /\ s.left \in Nat
       /\ s.cur = BADADDR \/ (s.cur \in Nat /\ a <= s.cur)
       /\ (s.left < count => Passed(s, a)) /\ InOrder(s.lines)
       /\ \A x \in Shown(s.lines) : Legit(x) /\ a <= x.addr /\ Passed(s, x.addr)
       /\ \A m \in All : a <= m.addr /\ Passed(s, m.addr) => m \in Shown(s.lines)
       /\ Explored => s.cur = BADADDR \/ ~in_segment(s.cur) \/ is_head(s.cur)
  BY <1>10 DEF I, LinearForwardInv, Listing
<1>12. \A x \in Shown(s.lines) : x.addr \in Int /\ x.addr <= MaxAddr
  <2>1. \A b \in Int : in_segment(b) => b <= MaxAddr
    BY <1>1, Mapped DEF Address
  <2>2. \A x \in Shown(s.lines) : x.addr \in Int /\ Legit(x)
    BY <1>11, LinesTyped
  <2> QED
    BY <1>1, <2>1, <2>2 DEF Legit, Unseen
<1>13. CASE page.has_more
  <2>1. s.left = 0 /\ s.cur # BADADDR
    BY <1>9, <1>10, <1>13 DEF LinearForwardOver
  <2>2. s.cur \in Nat /\ a < s.cur
    BY <1>11, <2>1 DEF Passed
  <2>3. Explored => \E m \in All : s.cur <= m.addr
    <3> SUFFICES ASSUME Explored PROVE \E m \in All : s.cur <= m.addr
      OBVIOUS
    <3> DEFINE n == next_seg_start(s.cur)
    <3>1. n \in Int /\ s.cur <= n /\ in_segment(n)
      BY <1>1, <1>9, <1>13, <2>2, NextMapped DEF Address
    <3>2. is_head(n)
      <4>1. CASE in_segment(s.cur)
        BY <1>11, <2>1, <4>1 DEF next_seg_start
      <4>2. CASE ~in_segment(s.cur)
        BY <1>9, <1>13, <2>2, <4>2, NextSegment, ExploredFirst DEF next_seg_start
      <4> QED
        BY <4>1, <4>2
    <3> HIDE DEF n
    <3>3. _emit_line(n) \in All /\ _emit_line(n).addr = n
      BY <3>1, <3>2, HeadLines, LineIs
    <3> QED
      BY <3>1, <3>3
  <2>4. Exact => Explored
    BY DEF Exact
  <2>5. \A b : Passed(s, b) <=> b < s.cur
    BY <2>1 DEF Passed
  <2> QED
    BY <1>9, <1>11, <1>13, <2>2, <2>3, <2>4, <2>5 DEF Ahead, page
<1>14. CASE ~page.has_more
  <2>1. \A m \in All : Passed(s, m.addr)
    <3>1. CASE s.cur = BADADDR
      BY <3>1 DEF Passed
    <3>2. CASE s.cur # BADADDR
      <4>1. \A b \in Int : s.cur <= b => ~in_segment(b)
        BY <1>9, <1>11, <1>14, <3>2, NextMapped
      <4>2. \A m \in All : in_segment(m.addr)
        BY <1>1, HeadIs
      <4> QED
        BY <1>1, <1>11, <3>2, <4>1, <4>2 DEF Passed
    <3> QED
      BY <3>1, <3>2
  <2>2. PICK e \in Int : 0 <= e /\ a < e /\ MaxAddr < e
    BY <1>1, Beyond
  <2>3. \A x \in Shown(s.lines) : Legit(x) /\ a <= x.addr /\ x.addr < e
    BY <1>1, <1>11, <1>12, <2>2
  <2>4. \A m \in All : a <= m.addr => m \in Shown(s.lines)
    BY <1>11, <2>1
  <2>5. \A m \in All : ~(e <= m.addr)
    BY <1>1, <2>2
  <2> QED
    BY <1>9, <1>11, <1>14, <2>2, <2>3, <2>4, <2>5 DEF Ahead, page
<1> QED
  BY <1>13, <1>14

-----------------------------------------------------------------------------
(* linear_view, backward. *)

\* The address before a line's.
LEMMA BackIs ==
  ASSUME Valid, NEW a \in Int
  PROVE  LET p == _prev_head_skip_gaps(a) IN
         /\ p = BADADDR => \A b \in Int : b < a => ~is_head(b)
         /\ p # BADADDR => /\ p \in Nat /\ p < a /\ in_segment(p)
                           /\ \A b \in Int : p < b /\ b < a => ~is_head(b)
         /\ Explored /\ p # BADADDR => is_head(p)
<1> DEFINE p == _prev_head_skip_gaps(a)
           h == prev_head(a, 0)
           g == get_prev_seg(a)
<1>1. /\ h = BADADDR => \A b \in Int : b < a => ~is_head(b)
      /\ h # BADADDR => /\ is_head(h) /\ h \in Nat /\ h < a /\ in_segment(h)
                        /\ \A b \in Int : h < b /\ b < a => ~is_head(b)
  BY PreviousHead, HeadIs DEF Address
<1>2. g # BADADDR => /\ g \in Nat /\ g < a /\ in_segment(g)
                     /\ \E i \in 1..Len(segments) : segments[i].first = g
  BY SegmentBefore DEF Address
<1>3. /\ h # BADADDR => p = h
      /\ h = BADADDR => p = BADADDR \/ (g # BADADDR /\ p = g)
  BY DEF _prev_head_skip_gaps
<1> HIDE DEF h, g, p
<1>4. CASE h # BADADDR
  BY <1>1, <1>3, <1>4 DEF p
<1>5. CASE h = BADADDR
  <2>1. CASE p = BADADDR
    BY <1>1, <1>5, <2>1 DEF p
  <2>2. CASE p # BADADDR
    <3>1. /\ p \in Nat /\ p < a /\ in_segment(p)
          /\ \E i \in 1..Len(segments) : segments[i].first = p
          /\ \A b \in Int : b < a => ~is_head(b)
      BY <1>1, <1>2, <1>3, <1>5, <2>2
    <3>2. ~Explored
      BY <3>1, ExploredFirst
    <3> QED
      BY <2>2, <3>1, <3>2 DEF p
  <2> QED
    BY <2>1, <2>2
<1> QED
  BY <1>4, <1>5

\* Where the loop is left, backward.
LinearBackwardOver == {s \in Listing : s.left = 0 \/ s.cur = BADADDR}

\* A page has every item and header that the scan passed.
LinearBackwardInv(a, count) ==
  {s \in Listing :
     /\ s.cur = BADADDR \/ (s.cur \in Nat /\ s.cur <= a /\ in_segment(s.cur))
     /\ s.left <= count /\ (s.left < count => s.cur < a)
     /\ InOrder(s.lines)
     /\ \A x \in Shown(s.lines) : Legit(x) /\ s.cur < x.addr /\ x.addr <= a
     /\ \A m \in All : s.cur < m.addr /\ m.addr <= a => m \in Shown(s.lines)
     /\ Explored => s.cur = BADADDR \/ is_head(s.cur)}

\* A turn keeps that, and goes down.
LEMMA LinearBackwardTurn ==
  ASSUME Valid, view # "hex", NEW a \in Nat, NEW count \in Nat,
         NEW s \in LinearBackwardInv(a, count), s \notin LinearBackwardOver
  PROVE  LET t == LinearBackward[s] IN
         t \in LinearBackwardInv(a, count) /\ s.cur \in Nat /\ t.cur \in Int /\ t.cur < s.cur
<1>1. s \in Listing /\ InOrder(s.lines)
  BY DEF LinearBackwardInv
<1>2. s.cur \in Int /\ s.left \in Nat /\ s.lines \in Seq(Lines)
  BY <1>1 DEF Listing
<1>3. s.left # 0 /\ s.cur # BADADDR
  BY <1>1 DEF LinearBackwardOver
<1>4. s.cur \in Nat /\ s.cur <= a /\ in_segment(s.cur) /\ (Explored => is_head(s.cur))
  BY <1>3 DEF LinearBackwardInv
<1> DEFINE t == LinearBackward[s]
           p == _prev_head_skip_gaps(s.cur)
           new == LinesAt(s.cur)
<1>5. t = [cur |-> p, left |-> s.left - 1, lines |-> new \o s.lines]
  BY <1>1, <1>3 DEF LinearBackward
<1>0. Exact <=> Explored
  BY DEF Exact
<1>6. \A m \in All : m.addr \in Int /\ is_head(m.addr)
  BY HeadLines, ViewAssumption DEF Address
<1>7. /\ p = BADADDR => \A b \in Int : b < s.cur => ~is_head(b)
      /\ p # BADADDR => /\ p \in Nat /\ p < s.cur /\ in_segment(p)
                        /\ \A b \in Int : p < b /\ b < s.cur => ~is_head(b)
      /\ Explored /\ p # BADADDR => is_head(p)
  BY <1>2, BackIs
<1>8. /\ new \in Seq(Lines) /\ InOrder(new)
      /\ \A x \in Shown(new) : x.addr = s.cur /\ (is_head(s.cur) => x \in All)
                               /\ (~is_head(s.cur) => Unseen(x))
      /\ \A m \in All : m.addr = s.cur => m \in Shown(new)
  BY <1>2, <1>4, LinesAtIs
<1> DEFINE u == new \o s.lines
<1> HIDE DEF new, p, t
<1>9. p \in Int /\ p < s.cur /\ \A b \in Int : p < b /\ b < s.cur => ~is_head(b)
  BY <1>4, <1>7 DEF BADADDR
<1>10. u \in Seq(Lines) /\ Shown(u) = Shown(s.lines) \cup Shown(new)
  BY <1>2, <1>8, Joined
<1>11. \A x \in Shown(s.lines) : Legit(x) /\ s.cur < x.addr /\ x.addr <= a /\ x.addr \in Int
  BY <1>2, LinesTyped DEF LinearBackwardInv
<1>12. InOrder(u)
  <2>1. \A x \in Shown(new), y \in Shown(s.lines) : Before(x, y)
    BY <1>8, <1>11 DEF Before
  <2> QED
    BY <1>1, <1>2, <1>8, <2>1, JoinedInOrder
<1> HIDE DEF u
<1>13. t = [cur |-> p, left |-> s.left - 1, lines |-> u]
  BY <1>5 DEF u
<1>14. t.cur = p /\ t.left = s.left - 1 /\ t.lines = u /\ t \in Listing
  BY <1>2, <1>3, <1>9, <1>10, <1>13 DEF Listing
<1>15. \A x \in Shown(u) : Legit(x) /\ p < x.addr /\ x.addr <= a
  <2> SUFFICES ASSUME NEW x \in Shown(u) PROVE Legit(x) /\ p < x.addr /\ x.addr <= a
    OBVIOUS
  <2>1. CASE x \in Shown(new)
    BY <1>0, <1>4, <1>8, <1>9, <2>1 DEF Legit
  <2>2. CASE x \in Shown(s.lines)
    BY <1>2, <1>9, <1>11, <2>2
  <2> QED
    BY <1>10, <2>1, <2>2
<1>16. \A m \in All : p < m.addr /\ m.addr <= a => m \in Shown(u)
  <2> SUFFICES ASSUME NEW m \in All, p < m.addr, m.addr <= a PROVE m \in Shown(u)
    OBVIOUS
  <2>1. ~(m.addr < s.cur)
    BY <1>6, <1>9
  <2>2. CASE m.addr = s.cur
    BY <1>8, <1>10, <2>2
  <2>3. CASE s.cur < m.addr
    BY <1>10, <2>3 DEF LinearBackwardInv
  <2> QED
    BY <1>2, <1>6, <2>1, <2>2, <2>3
<1>17. s.left <= count
  BY DEF LinearBackwardInv
<1>18. p = BADADDR \/ (p \in Nat /\ p <= a /\ in_segment(p))
  BY <1>4, <1>7
<1>19. t \in LinearBackwardInv(a, count)
  BY <1>2, <1>4, <1>7, <1>9, <1>12, <1>14, <1>15, <1>16, <1>17, <1>18 DEF LinearBackwardInv
<1> QED
  BY <1>4, <1>9, <1>14, <1>19 DEF t

\* linear_view goes back as the panel needs it.
LEMMA LinearBehind ==
  ASSUME Valid, view # "hex", NEW addr \in Address, NEW count \in Nat \ {0}
  PROVE  Behind(linear_view(addr, count, "backward"), addr)
<1> DEFINE a    == addr
           page == linear_view(a, count, "backward")
           c    == IF is_head(a) THEN a ELSE prev_head(a, 0)
           from == Start(c, count)
           I    == LinearBackwardInv(a, count)
           s    == Listed(LinearBackward, c, count)
<1>1. MaxAddr \in Nat /\ a \in Nat /\ a <= MaxAddr
      /\ \A m \in All : m.addr \in Nat /\ is_head(m.addr)
  BY HeadLines, ViewAssumption DEF Address
<1>2. /\ c \in Int /\ c <= a /\ (\A b \in Int : c < b /\ b <= a => ~is_head(b))
      /\ c # BADADDR => c \in Nat /\ is_head(c) /\ in_segment(c)
  <2>1. CASE is_head(a)
    BY <1>1, <2>1, HeadIs
  <2>2. CASE ~is_head(a)
    <3> DEFINE h == prev_head(a, 0)
    <3>1. /\ h = BADADDR => \A b \in Int : b < a => ~is_head(b)
          /\ h # BADADDR => /\ is_head(h) /\ h \in Nat /\ h < a /\ in_segment(h)
                            /\ \A b \in Int : h < b /\ b < a => ~is_head(b)
      BY <1>1, PreviousHead, HeadIs DEF Address
    <3>2. c = h
      BY <2>2
    <3> HIDE DEF h, c
    <3> QED
      BY <1>1, <2>2, <3>1, <3>2 DEF BADADDR
  <2> QED
    BY <2>1, <2>2
<1> HIDE DEF c
<1>3. from \in I /\ from.cur = c
  <2>1. from \in Listing /\ from.cur = c /\ from.left = count /\ from.lines = << >>
    BY <1>2, StartTyped DEF Start
  <2>2. Shown(from.lines) = {} /\ InOrder(from.lines)
    BY <2>1, NoLines
  <2> HIDE DEF from
  <2>3. \A m \in All : ~(c < m.addr /\ m.addr <= a)
    BY <1>1, <1>2
  <2> QED
    BY <1>2, <2>1, <2>2, <2>3 DEF LinearBackwardInv
<1>4. \A r \in I : r \in LinearBackwardOver => LinearBackward[r] = r
  BY DEF LinearBackwardOver, LinearBackward
<1>5. \A r \in I : r \notin LinearBackwardOver =>
        LinearBackward[r] \in I /\ LinearBackward[r].cur < r.cur /\ r.cur >= 0
  BY <1>1, LinearBackwardTurn
<1>6. \A r \in I : r.cur \in Int
  BY DEF LinearBackwardInv, Listing
<1>7. from.cur <= MaxAddr
  BY <1>1, <1>2, <1>3
<1>8. s = Loop(LinearBackward, from)[Turns]
  BY StartIs
<1>9. page.lines = s.lines /\ (page.has_more <=> s.cur # BADADDR)
  BY DEF linear_view, c
<1> HIDE DEF I, from, s, page
<1>10. s \in I \cap LinearBackwardOver
  BY <1>3, <1>4, <1>5, <1>6, <1>7, <1>8, LoopDescends
<1>11. /\ s.cur \in Int /\ s.lines \in Seq(Lines) /\ s.left \in Nat
       /\ s.cur = BADADDR \/ (s.cur \in Nat /\ s.cur <= a)
       /\ (s.left < count => s.cur < a) /\ InOrder(s.lines)
       /\ \A x \in Shown(s.lines) : Legit(x) /\ s.cur < x.addr /\ x.addr <= a
       /\ \A m \in All : s.cur < m.addr /\ m.addr <= a => m \in Shown(s.lines)
       /\ Explored => s.cur = BADADDR \/ is_head(s.cur)
  BY <1>10 DEF I, LinearBackwardInv, Listing
<1>12. s.cur < a
  <2>1. s.left = 0 \/ s.cur = BADADDR
    BY <1>10 DEF LinearBackwardOver
  <2> QED
    BY <1>1, <1>11, <2>1 DEF BADADDR
<1>13. Exact => (page.has_more <=> \E m \in All : m.addr <= s.cur)
  <2>1. CASE s.cur = BADADDR
    BY <1>1, <1>9, <2>1 DEF BADADDR
  <2>2. CASE s.cur # BADADDR
    <3>1. Exact => is_head(s.cur)
      BY <1>11, <2>2 DEF Exact
    <3>2. is_head(s.cur) => _emit_line(s.cur) \in All /\ _emit_line(s.cur).addr = s.cur
      BY <1>11, HeadLines, HeadIs, LineIs
    <3> QED
      BY <1>9, <1>11, <2>2, <3>1, <3>2
  <2> QED
    BY <2>1, <2>2
<1> QED
  BY <1>9, <1>11, <1>12, <1>13 DEF Behind, page

-----------------------------------------------------------------------------
(* Stretches of lines. *)

\* The lines are all there is strictly between two addresses.
Covers(s, lo, hi) ==
  /\ s \in Seq(Lines) /\ InOrder(s)
  /\ \A x \in Shown(s) : Legit(x) /\ lo < x.addr /\ x.addr < hi
  /\ \A m \in All : lo < m.addr /\ m.addr < hi => m \in Shown(s)

\* Two such sequences, where one ends and the other begins, make one.
LEMMA CoversJoined ==
  ASSUME NEW s, NEW t, NEW lo \in Int, NEW mid \in Int, NEW hi \in Int, lo < mid, mid <= hi,
         \A m \in All : m.addr \in Int, Covers(s, lo, mid), Covers(t, mid - 1, hi)
  PROVE  Covers(s \o t, lo, hi)
<1> DEFINE u == s \o t
<1>1. s \in Seq(Lines) /\ t \in Seq(Lines) /\ InOrder(s) /\ InOrder(t)
  BY DEF Covers
<1>2. u \in Seq(Lines) /\ Shown(u) = Shown(s) \cup Shown(t)
  BY <1>1, Joined
<1>3. \A x \in Shown(s) : Legit(x) /\ x.addr \in Int /\ lo < x.addr /\ x.addr < mid
  BY <1>1, LinesTyped DEF Covers
<1>4. \A x \in Shown(t) : Legit(x) /\ x.addr \in Int /\ mid <= x.addr /\ x.addr < hi
  BY <1>1, LinesTyped DEF Covers
<1>5. InOrder(u)
  <2>1. \A x \in Shown(s), y \in Shown(t) : Before(x, y)
    BY <1>3, <1>4 DEF Before
  <2> QED
    BY <1>1, <2>1, JoinedInOrder
<1>6. \A m \in All : lo < m.addr /\ m.addr < hi => m \in Shown(u)
  <2> SUFFICES ASSUME NEW m \in All, lo < m.addr, m.addr < hi PROVE m \in Shown(u)
    OBVIOUS
  <2>1. CASE m.addr < mid
    BY <1>2, <2>1 DEF Covers
  <2>2. CASE ~(m.addr < mid)
    BY <1>2, <2>2 DEF Covers
  <2> QED
    BY <2>1, <2>2
<1> HIDE DEF u
<1>7. \A x \in Shown(u) : Legit(x) /\ lo < x.addr /\ x.addr < hi
  BY <1>2, <1>3, <1>4
<1>8. Covers(u, lo, hi)
  BY <1>2, <1>5, <1>6, <1>7 DEF Covers
<1> QED
  BY <1>8 DEF u

\* The filter of the panel leaves out the lines at the addresses of the old ones.
LEMMA FreshIs ==
  ASSUME NEW page, NEW old \in Seq(Lines), page.lines \in Seq(Lines), InOrder(page.lines)
  PROVE  LET kept == Fresh(page, old) IN
         /\ kept \in Seq(Lines) /\ InOrder(kept)
         /\ Shown(kept) = {x \in Shown(page.lines) : \A y \in Shown(old) : y.addr # x.addr}
<1> DEFINE p == page.lines
           Old(l) == \E i \in 1..Len(old) : old[i].addr = l.addr
           filter ==
             [s \in [next : Nat, kept : Seq(Lines)] |->
                LET l == page.lines[s.next] IN
                [next |-> s.next + 1,
                 kept |-> IF \E i \in 1..Len(old) : old[i].addr = l.addr THEN s.kept
                          ELSE s.kept \o <<l>>]]
           from == [next |-> 1, kept |-> << >>]
           at   == Loop(filter, from)
           Good(n, s) ==
             /\ s \in [next : Nat, kept : Seq(Lines)] /\ s.next = n + 1 /\ InOrder(s.kept)
             /\ \A x : x \in Shown(s.kept) <=> \E i \in 1..n : x = p[i] /\ ~Old(p[i])
           T == {n \in Nat : n <= Len(p) => Good(n, at[n])}
<1>1. Fresh(page, old) = at[Len(p)].kept
  BY DEF Fresh
<1>2. Len(p) \in Nat /\ \A i \in 1..Len(p) : p[i] \in Lines
  BY LinesTyped
<1>3. \A s \in [next : Nat, kept : Seq(Lines)] :
        filter[s] = [next |-> s.next + 1,
                     kept |-> IF Old(p[s.next]) THEN s.kept ELSE s.kept \o <<p[s.next]>>]
  OBVIOUS
<1>4. InOrder(p)
  OBVIOUS
<1> HIDE DEF filter, from
<1>5. at[0] = from /\ \A n \in Nat : at[n + 1] = filter[at[n]]
  BY LoopTurns
<1> HIDE DEF at, p, Old
<1>6. 0 \in T
  <2>1. from \in [next : Nat, kept : Seq(Lines)] /\ from.next = 1 /\ from.kept = << >>
    BY NoLines DEF from
  <2>2. InOrder(from.kept) /\ Shown(from.kept) = {}
    BY <2>1, NoLines
  <2>3. Good(0, from)
    BY <2>1, <2>2
  <2> QED
    BY <1>5, <2>3
<1>7. ASSUME NEW n \in Nat, n \in T PROVE n + 1 \in T
  <2> SUFFICES ASSUME n + 1 <= Len(p) PROVE Good(n + 1, at[n + 1])
    OBVIOUS
  <2> DEFINE s == at[n]
             t == at[n + 1]
             l == p[n + 1]
             one == <<l>>
  <2>1. Good(n, s)
    BY <1>2, <1>7
  <2>2. s \in [next : Nat, kept : Seq(Lines)] /\ s.kept \in Seq(Lines) /\ s.next = n + 1
        /\ InOrder(s.kept)
    BY <2>1
  <2>3. t = [next |-> n + 2, kept |-> IF Old(l) THEN s.kept ELSE s.kept \o one]
    <3>1. t = filter[s]
      BY <1>5
    <3> HIDE DEF s, t
    <3>2. filter[s] = [next |-> s.next + 1,
                       kept |-> IF Old(p[s.next]) THEN s.kept ELSE s.kept \o <<p[s.next]>>]
      BY <1>3, <2>2
    <3>3. s.next + 1 = n + 2
      BY <2>2
    <3> QED
      BY <2>2, <3>1, <3>2, <3>3
  <2>4. l \in Lines /\ n + 1 \in 1..Len(p)
    BY <1>2
  <2>5. one \in Seq(Lines) /\ Shown(one) = {l} /\ InOrder(one)
    BY <2>4, OneLine
  <2>6. \A x : x \in Shown(s.kept) <=> \E i \in 1..n : x = p[i] /\ ~Old(p[i])
    BY <2>1
  <2> HIDE DEF s, one, t
  <2>7. CASE Old(l)
    <3>1. t.kept = s.kept /\ t.next = n + 2 /\ t \in [next : Nat, kept : Seq(Lines)]
      BY <2>2, <2>3, <2>7
    <3>2. \A x : (\E i \in 1..n : x = p[i] /\ ~Old(p[i]))
                   <=> (\E i \in 1..n + 1 : x = p[i] /\ ~Old(p[i]))
      BY <2>7
    <3> HIDE DEF l
    <3>3. \A x : x \in Shown(t.kept) <=> \E i \in 1..n + 1 : x = p[i] /\ ~Old(p[i])
      BY <2>6, <3>1, <3>2, Zenon
    <3>4. Good(n + 1, t)
      BY <2>2, <3>1, <3>3
    <3> QED
      BY <3>4 DEF t
  <2>8. CASE ~Old(l)
    <3> DEFINE u == s.kept \o one
    <3>1. u \in Seq(Lines) /\ Shown(u) = Shown(s.kept) \cup {l}
      BY <2>2, <2>5, Joined
    <3>2. InOrder(u)
      <4>1. \A x \in Shown(s.kept) : Before(x, l)
        BY <1>2, <1>4, <2>4, <2>6 DEF InOrder
      <4> QED
        BY <2>2, <2>5, <4>1, JoinedInOrder
    <3> HIDE DEF u
    <3>3. t = [next |-> n + 2, kept |-> u]
      BY <2>3, <2>8 DEF u
    <3>4. t.kept = u /\ t.next = n + 2 /\ t \in [next : Nat, kept : Seq(Lines)]
      BY <3>1, <3>3
    <3>5. \A x : ((\E i \in 1..n : x = p[i] /\ ~Old(p[i])) \/ x = l)
                   <=> (\E i \in 1..n + 1 : x = p[i] /\ ~Old(p[i]))
      BY <2>8
    <3> HIDE DEF l
    <3>6. \A x : x \in Shown(u) <=> x \in Shown(s.kept) \/ x = l
      BY <3>1
    <3>7. \A x : x \in Shown(u) <=> \E i \in 1..n + 1 : x = p[i] /\ ~Old(p[i])
      BY <2>6, <3>5, <3>6, Zenon
    <3>8. Good(n + 1, t)
      BY <3>2, <3>4, <3>7
    <3> QED
      BY <3>8 DEF t
  <2> QED
    BY <2>7, <2>8
<1> HIDE DEF T
<1>8. Len(p) \in T
  BY <1>2, <1>6, <1>7, Induction
<1> DEFINE kept == at[Len(p)].kept
<1>9. /\ kept \in Seq(Lines) /\ InOrder(kept)
      /\ \A x : x \in Shown(kept) <=> \E i \in 1..Len(p) : x = p[i] /\ ~Old(p[i])
  BY <1>2, <1>8 DEF T
<1> HIDE DEF kept
<1>10. \A x : (\E i \in 1..Len(p) : x = p[i] /\ ~Old(p[i]))
               <=> (x \in Shown(p) /\ \A y \in Shown(old) : y.addr # x.addr)
  BY DEF Shown, Old
<1>11. Shown(kept) = {x \in Shown(p) : \A y \in Shown(old) : y.addr # x.addr}
  BY <1>9, <1>10
<1>12. Fresh(page, old) = kept
  BY <1>1 DEF kept
<1> QED
  BY <1>9, <1>11, <1>12 DEF p

-----------------------------------------------------------------------------
(* Pages put together. *)

\* s is a stretch of the database; mt and mb say whether there is more on either side.
Stretch(s, mt, mb) ==
  \E lo, hi \in Int :
    /\ Covers(s, lo, hi)
    /\ Exact => /\ mt <=> \E m \in All : m.addr <= lo
                /\ mb <=> \E m \in All : hi <= m.addr

\* A page behind the bottom, where its filter leaves out nothing.
LEMMA ForwardStretch ==
  ASSUME \A m \in All : m.addr \in Int,
         NEW s \in Seq(Lines), s # << >>, NEW mt, NEW mb, Stretch(s, mt, mb),
         NEW a \in Int, s[Len(s)].addr < a,
         \A m \in All : ~(s[Len(s)].addr < m.addr /\ m.addr < a),
         NEW page, Ahead(page, a)
  PROVE  Stretch(s \o Fresh(page, s), mt, page.has_more)
<1> DEFINE z == s[Len(s)]
           new == Fresh(page, s)
<1>1. PICK lo, hi \in Int : /\ Covers(s, lo, hi)
                            /\ Exact => /\ mt <=> \E m \in All : m.addr <= lo
                                        /\ mb <=> \E m \in All : hi <= m.addr
  BY DEF Stretch
<1>2. PICK e \in Int :
        /\ a < e /\ page.lines \in Seq(Lines) /\ InOrder(page.lines)
        /\ \A x \in Shown(page.lines) : Legit(x) /\ a <= x.addr /\ x.addr < e
        /\ \A m \in All : a <= m.addr /\ m.addr < e => m \in Shown(page.lines)
        /\ Exact => (page.has_more <=> \E m \in All : e <= m.addr)
  BY DEF Ahead
<1>3. \A x \in Shown(s) : x.addr \in Int /\ x.addr <= z.addr
  BY <1>1, LinesTyped, EndsOfLines DEF Covers
<1>4. z \in Shown(s) /\ z.addr \in Int
  BY LinesTyped
<1> HIDE DEF z
<1>5. lo < z.addr /\ z.addr < hi /\ z.addr < a
  BY <1>1, <1>4 DEF Covers, z
<1>6. \A m \in All : ~(z.addr < m.addr /\ m.addr < a)
  BY DEF z
<1>7. Covers(s, lo, a)
  <2>1. \A x \in Shown(s) : x.addr < a
    BY <1>3, <1>4, <1>5
  <2>2. \A m \in All : lo < m.addr /\ m.addr < a => m.addr < hi
    BY <1>4, <1>5, <1>6
  <2> QED
    BY <1>1, <2>1, <2>2 DEF Covers
<1>8. new \in Seq(Lines) /\ InOrder(new)
      /\ Shown(new) = {x \in Shown(page.lines) : \A y \in Shown(s) : y.addr # x.addr}
  BY <1>2, FreshIs
<1> HIDE DEF new
<1>9. Shown(new) = Shown(page.lines)
  <2>1. \A x \in Shown(page.lines), y \in Shown(s) : y.addr # x.addr
    <3>1. \A x \in Shown(page.lines) : x.addr \in Int /\ a <= x.addr
      BY <1>2, LinesTyped
    <3> QED
      BY <1>3, <1>4, <1>5, <3>1
  <2> QED
    BY <1>8, <2>1
<1>10. Covers(new, a - 1, e)
  <2>1. \A x \in Shown(new) : x.addr \in Int
    BY <1>8, LinesTyped
  <2>2. \A x \in Shown(new) : Legit(x) /\ a - 1 < x.addr /\ x.addr < e
    BY <1>2, <1>9, <2>1
  <2>3. \A m \in All : a - 1 < m.addr /\ m.addr < e => m \in Shown(new)
    BY <1>2, <1>9
  <2> QED
    BY <1>8, <2>2, <2>3 DEF Covers
<1>11. Covers(s \o new, lo, e)
  <2>1. lo < a
    BY <1>4, <1>5
  <2> QED
    BY <1>2, <1>7, <1>10, <2>1, CoversJoined
<1>12. Exact => /\ mt <=> \E m \in All : m.addr <= lo
                /\ page.has_more <=> \E m \in All : e <= m.addr
  BY <1>1, <1>2
<1> QED
  BY <1>11, <1>12 DEF Stretch, new

\* A page in front of the top, where its filter leaves out the lines at the top's address.
LEMMA BackwardStretch ==
  ASSUME \A m \in All : m.addr \in Int,
         NEW s \in Seq(Lines), s # << >>, NEW mt, NEW mb, Stretch(s, mt, mb),
         NEW page, Behind(page, s[1].addr)
  PROVE  Stretch(Fresh(page, s) \o s, page.has_more, mb)
<1> DEFINE a == s[1].addr
           new == Fresh(page, s)
<1>1. PICK lo, hi \in Int : /\ Covers(s, lo, hi)
                            /\ Exact => /\ mt <=> \E m \in All : m.addr <= lo
                                        /\ mb <=> \E m \in All : hi <= m.addr
  BY DEF Stretch
<1>2. PICK e \in Int :
        /\ e < a /\ page.lines \in Seq(Lines) /\ InOrder(page.lines)
        /\ \A x \in Shown(page.lines) : Legit(x) /\ e < x.addr /\ x.addr <= a
        /\ \A m \in All : e < m.addr /\ m.addr <= a => m \in Shown(page.lines)
        /\ Exact => (page.has_more <=> \E m \in All : m.addr <= e)
  BY DEF Behind
<1>3. \A x \in Shown(s) : x.addr \in Int /\ a <= x.addr
  BY <1>1, LinesTyped, EndsOfLines DEF Covers
<1>4. a \in Int /\ lo < a /\ a < hi /\ \E y \in Shown(s) : y.addr = a
  BY <1>1, LinesTyped DEF Covers
<1> HIDE DEF a
<1>5. Covers(s, a - 1, hi)
  <2>1. \A x \in Shown(s) : a - 1 < x.addr
    BY <1>3, <1>4
  <2>2. \A m \in All : a - 1 < m.addr => lo < m.addr
    BY <1>4
  <2> QED
    BY <1>1, <2>1, <2>2 DEF Covers
<1>6. new \in Seq(Lines) /\ InOrder(new)
      /\ Shown(new) = {x \in Shown(page.lines) : \A y \in Shown(s) : y.addr # x.addr}
  BY <1>2, FreshIs
<1> HIDE DEF new
<1>7. Covers(new, e, a)
  <2>1. \A x \in Shown(new) : x.addr \in Int
    BY <1>6, LinesTyped
  <2>2. \A x \in Shown(new) : Legit(x) /\ e < x.addr /\ x.addr <= a /\ x.addr # a
    BY <1>2, <1>4, <1>6
  <2>3. \A m \in All : e < m.addr /\ m.addr < a => m \in Shown(new)
    <3>1. \A m \in All : m.addr < a => \A y \in Shown(s) : y.addr # m.addr
      BY <1>3, <1>4
    <3> QED
      BY <1>2, <1>4, <1>6, <3>1
  <2>4. \A x \in Shown(new) : Legit(x) /\ e < x.addr /\ x.addr < a
    BY <1>4, <2>1, <2>2
  <2> QED
    BY <1>6, <2>3, <2>4 DEF Covers
<1>8. Covers(new \o s, e, hi)
  BY <1>2, <1>4, <1>5, <1>7, CoversJoined
<1>9. Exact => /\ page.has_more <=> \E m \in All : m.addr <= e
               /\ mb <=> \E m \in All : hi <= m.addr
  BY <1>1, <1>2
<1> QED
  BY <1>8, <1>9 DEF Stretch, new

\* The two pages of a jump.
LEMMA JumpStretch ==
  ASSUME \A m \in All : m.addr \in Int, NEW a \in Int,
         NEW fwd, Ahead(fwd, a), NEW bwd, Behind(bwd, a)
  PROVE  Stretch(Fresh(bwd, fwd.lines) \o fwd.lines, bwd.has_more, fwd.has_more)
<1> DEFINE s == fwd.lines
           new == Fresh(bwd, s)
<1>1. PICK hi \in Int :
        /\ a < hi /\ s \in Seq(Lines) /\ InOrder(s)
        /\ \A x \in Shown(s) : Legit(x) /\ a <= x.addr /\ x.addr < hi
        /\ \A m \in All : a <= m.addr /\ m.addr < hi => m \in Shown(s)
        /\ Exact => (fwd.has_more <=> \E m \in All : hi <= m.addr)
  BY DEF Ahead
<1>2. PICK lo \in Int :
        /\ lo < a /\ bwd.lines \in Seq(Lines) /\ InOrder(bwd.lines)
        /\ \A x \in Shown(bwd.lines) : Legit(x) /\ lo < x.addr /\ x.addr <= a
        /\ \A m \in All : lo < m.addr /\ m.addr <= a => m \in Shown(bwd.lines)
        /\ Exact => (bwd.has_more <=> \E m \in All : m.addr <= lo)
  BY DEF Behind
<1>3. new \in Seq(Lines) /\ InOrder(new)
      /\ Shown(new) = {x \in Shown(bwd.lines) : \A y \in Shown(s) : y.addr # x.addr}
  BY <1>1, <1>2, FreshIs
<1> HIDE DEF new, s
<1>4. /\ \A x \in Shown(s) : x.addr \in Int
      /\ \A x \in Shown(new) : x.addr \in Int /\ Legit(x) /\ lo < x.addr /\ x.addr <= a
  BY <1>1, <1>2, <1>3, LinesTyped
<1>5. \E mid \in Int : lo < mid /\ mid <= hi /\ Covers(new, lo, mid) /\ Covers(s, mid - 1, hi)
  <2>1. CASE \E y \in Shown(s) : y.addr = a
    <3>1. \A x \in Shown(new) : x.addr < a
      BY <1>3, <1>4, <2>1
    <3>2. \A m \in All : lo < m.addr /\ m.addr < a => m \in Shown(new)
      <4>1. \A m \in All : m.addr < a => \A y \in Shown(s) : y.addr # m.addr
        BY <1>1, <1>4
      <4> QED
        BY <1>2, <1>3, <4>1
    <3>3. Covers(new, lo, a)
      BY <1>3, <1>4, <3>1, <3>2 DEF Covers
    <3>4. Covers(s, a - 1, hi)
      BY <1>1, <1>4 DEF Covers
    <3> QED
      BY <1>1, <1>2, <3>3, <3>4
  <2>2. CASE ~\E y \in Shown(s) : y.addr = a
    <3>1. \A m \in All : m.addr # a
      BY <1>1, <2>2
    <3>2. \A x \in Shown(s) : a < x.addr
      BY <1>1, <1>4, <2>2
    <3>3. \A m \in All : lo < m.addr /\ m.addr < a + 1 => m \in Shown(new)
      <4>1. \A m \in All : m.addr < a + 1 => m.addr <= a /\ \A y \in Shown(s) : y.addr # m.addr
        BY <1>4, <3>2
      <4> QED
        BY <1>2, <1>3, <4>1
    <3>4. Covers(new, lo, a + 1)
      BY <1>3, <1>4, <3>3 DEF Covers
    <3>5. Covers(s, a, hi)
      BY <1>1, <3>2 DEF Covers
    <3>6. (a + 1) - 1 = a /\ lo < a + 1 /\ a + 1 <= hi
      BY <1>1, <1>2
    <3> QED
      BY <3>4, <3>5, <3>6
  <2> QED
    BY <2>1, <2>2
<1>6. Covers(new \o s, lo, hi)
  <2>1. PICK mid \in Int : lo < mid /\ mid <= hi /\ Covers(new, lo, mid) /\ Covers(s, mid - 1, hi)
    BY <1>5
  <2> QED
    BY <1>1, <2>1, CoversJoined
<1>7. Exact => /\ bwd.has_more <=> \E m \in All : m.addr <= lo
               /\ fwd.has_more <=> \E m \in All : hi <= m.addr
  BY <1>1, <1>2
<1> QED
  BY <1>6, <1>7 DEF Stretch, new, s

-----------------------------------------------------------------------------
(* The panel. *)

\* Where a page begins.
From(addr) == IF view = "hex" THEN Align(addr) ELSE addr

\* The views that show one stretch: the linear one, the hex one for segments made of rows.
Served == view \in {"hex", "linear"} /\ (view = "hex" => Regular)

\* Forward pages, of either view.
LEMMA PageAhead ==
  ASSUME Valid, Served, NEW addr \in Nat, NEW count \in Nat \ {0}
  PROVE  Ahead(Page(addr, count, "forward"), From(addr))
<1>1. CASE view = "hex"
  BY <1>1, HexAhead DEF Page, From, Served
<1>2. CASE view # "hex"
  BY <1>2, LinearAhead DEF Page, From, Served
<1> QED
  BY <1>1, <1>2

\* Backward pages, of either view.
LEMMA PageBehind ==
  ASSUME Valid, Served, NEW addr \in Address, NEW count \in Nat \ {0}
  PROVE  Behind(Page(addr, count, "backward"), From(addr))
<1>1. CASE view = "hex"
  BY <1>1, HexBehind DEF Page, From, Served
<1>2. CASE view # "hex"
  BY <1>2, LinearBehind DEF Page, From, Served
<1> QED
  BY <1>1, <1>2

\* has_more is a truth value.
LEMMA HasMoreIs ==
  ASSUME NEW addr, NEW count, NEW direction
  PROVE  Page(addr, count, direction).has_more \in BOOLEAN
<1>1. hex_view(addr, count, direction).has_more \in BOOLEAN
  BY DEF hex_view
<1>2. linear_view(addr, count, direction).has_more \in BOOLEAN
  BY DEF linear_view
<1> QED
  BY <1>1, <1>2 DEF Page

\* What there is to see is at mapped addresses.
LEMMA AllIs ==
  ASSUME Valid, view \in {"hex", "linear"}
  PROVE  \A m \in All : m.addr \in Int /\ m.addr \in Address
<1>1. CASE view = "hex"
  BY <1>1, RowIs, ViewAssumption DEF Address
<1>2. CASE view # "hex"
  BY <1>2, HeadLines, ViewAssumption DEF Address
<1> QED
  BY <1>1, <1>2

\* A line is where a page begins, and so is the end of a line, before which nothing
\* else begins.
LEMMA LegitIs ==
  ASSUME Valid, Served, NEW x \in Lines, Legit(x)
  PROVE  /\ x.addr \in Address /\ x.addr \in Nat /\ x.size \in Nat \ {0}
         /\ From(x.addr) = x.addr /\ From(x.addr + x.size) = x.addr + x.size
         /\ \A m \in All : ~(x.addr < m.addr /\ m.addr < x.addr + x.size)
<1>1. x.addr \in Int /\ x.size \in Nat /\ MaxAddr \in Nat /\ Row \in Nat \ {0}
  BY ViewAssumption DEF Lines
<1>2. CASE view = "hex"
  <2>1. x \in All
    BY <1>2 DEF Legit, Exact, Served
  <2>2. x.addr \in Address /\ Aligned(x.addr) /\ x.size = Row
    BY <1>2, <2>1, RowIs
  <2>3. x.addr \in Nat
    BY <2>2, ViewAssumption DEF Address
  <2>4. ASSUME NEW m \in All, x.addr < m.addr, m.addr < x.addr + x.size PROVE FALSE
    <3>1. m.addr \in Int /\ Aligned(m.addr)
      BY <1>2, RowIs, ViewAssumption DEF Address
    <3>2. x.addr + Row <= m.addr
      BY <1>1, <2>2, <2>4, <3>1, Apart
    <3> QED
      BY <1>1, <2>2, <2>4, <3>1, <3>2
  <2>5. \A b \in Int : Aligned(b) => Align(b) = b
    <3> SUFFICES ASSUME NEW b \in Int, Aligned(b) PROVE Align(b) = b
      OBVIOUS
    <3>1. Align(b) \in Int /\ Aligned(Align(b)) /\ Align(b) <= b /\ b < Align(b) + Row
      BY AlignIs
    <3>2. Align(b) < b => Align(b) + Row <= b
      BY <3>1, AlignIs
    <3> QED
      BY <1>1, <3>1, <3>2
  <2>6. Aligned(x.addr + Row)
    BY <1>1, <2>2, NextAligned
  <2> DEFINE n == x.addr + Row
  <2>7. n \in Int /\ Aligned(n) /\ n = x.addr + x.size
    BY <1>1, <2>2, <2>6
  <2> HIDE DEF n
  <2>8. Align(n) = n /\ Align(x.addr) = x.addr
    BY <1>1, <2>2, <2>5, <2>7
  <2> QED
    BY <1>1, <1>2, <2>2, <2>3, <2>4, <2>7, <2>8 DEF From
<1>3. CASE view # "hex"
  <2>1. From(x.addr) = x.addr /\ From(x.addr + x.size) = x.addr + x.size
    BY <1>3 DEF From
  <2>2. \A m \in All : is_head(m.addr) /\ m.addr \in Int
    BY <1>1, <1>3, HeadLines DEF Address
  <2>3. CASE Unseen(x)
    BY <1>1, <2>1, <2>2, <2>3, Mapped DEF Unseen, Address
  <2>4. CASE x \in All /\ x = _emit_line(x.addr)
    <3>1. is_head(x.addr) /\ in_segment(x.addr) /\ x.addr \in Address
      BY <1>3, <2>4, HeadLines, HeadIs
    <3>2. x.size \in Nat \ {0} /\ \A b \in Int : x.addr < b /\ b < x.addr + x.size => ~is_head(b)
      BY <1>1, <2>4, <3>1, LineIs
    <3> QED
      BY <1>1, <2>1, <2>2, <3>1, <3>2 DEF Address
  <2>5. CASE x \in All /\ x = Line(x.addr, "header", 1)
    <3>1. x.size = 1 /\ x.addr \in Address
      BY <1>3, <2>5, HeadLines DEF Line
    <3> QED
      BY <1>1, <2>1, <2>2, <3>1 DEF Address
  <2> QED
    BY <1>3, <2>3, <2>4, <2>5, HeadLines DEF Legit
<1> QED
  BY <1>2, <1>3

\* While the database and the view stay, so does what there is to see.
LEMMA SameImage ==
  ASSUME UNCHANGED <<image, view>>
  PROVE  /\ Valid' <=> Valid
         /\ Served' <=> Served
         /\ Exact' <=> Exact
         /\ All' = All
         /\ \A x : Unseen(x)' <=> Unseen(x)
<1>1. segments' = segments /\ items' = items /\ funcs' = funcs /\ view' = view
  BY DEF image
<1>2. Valid' <=> Valid
  BY <1>1 DEF Valid
<1>3. Served' <=> Served
  BY <1>1 DEF Served, Regular
<1>4. Exact' <=> Exact
  BY <1>1 DEF Exact, Regular, Explored, in_segment
<1>5. All' = All
  BY <1>1 DEF All, Rows, Items, Headers, _emit_line, Item, is_head, in_segment, RunEnd, Least
<1>6. \A x : Unseen(x)' <=> Unseen(x)
  BY <1>1 DEF Unseen, in_segment, is_head
<1> QED
  BY <1>2, <1>3, <1>4, <1>5, <1>6

\* And what is a stretch of it.
LEMMA SameStretch ==
  ASSUME UNCHANGED <<image, view>>, Stretch(lines', moreTop', moreBottom')
  PROVE  Stretch(lines, moreTop, moreBottom)'
BY SameImage DEF Stretch, Covers, Legit

\* What a call in flight is for.
Waits(c) ==
  /\ c \in [kind : {"jump", "forward", "backward"}, addr : Nat, step : {1, 2}]
  /\ c.kind = "jump"     => lines = << >> /\ c.addr \in Address
  /\ c.kind = "forward"  => lines # << >> /\ c.addr = bottom.addr + bottom.size
  /\ c.kind = "backward" => lines # << >> /\ c.addr = top.addr

\* One call at a time, made for the lines that are shown; and these are a stretch.
Orderly ==
  /\ loading <=> calls # {}
  /\ \A c, d \in calls : c = d
  /\ \A c \in calls : Waits(c)
  /\ lines # << >> => Stretch(lines, moreTop, moreBottom)

\* The inductive invariant.
PanelInv ==
  /\ Valid /\ view \in {"hex", "linear"} /\ moreTop \in BOOLEAN /\ moreBottom \in BOOLEAN
  /\ ~raced /\ Served => Orderly

\* It holds of an empty panel.
LEMMA InitPanel == Init => PanelInv
<1> SUFFICES ASSUME Init PROVE PanelInv
  OBVIOUS
<1>1. Valid
  BY PanelAssumption DEF Init, Valid
<1>2. Orderly
  BY DEF Init, Orderly
<1> QED
  BY <1>1, <1>2 DEF Init, PanelInv

\* The ends of what is shown.
LEMMA EndsLegit ==
  ASSUME Valid, Served, lines # << >>, Stretch(lines, moreTop, moreBottom)
  PROVE  /\ lines \in Seq(Lines) /\ \A x \in Shown(lines) : x \in Lines /\ Legit(x)
         /\ top \in Shown(lines) /\ bottom \in Shown(lines)
         /\ top.addr \in Address /\ top.addr \in Nat
         /\ bottom.addr \in Nat /\ bottom.size \in Nat \ {0}
<1>1. lines \in Seq(Lines) /\ \A x \in Shown(lines) : Legit(x)
  BY DEF Stretch, Covers
<1>2. top \in Shown(lines) /\ bottom \in Shown(lines) /\ \A x \in Shown(lines) : x \in Lines
  BY <1>1, LinesTyped DEF top, bottom
<1>3. top \in Lines /\ Legit(top) /\ bottom \in Lines /\ Legit(bottom)
  BY <1>1, <1>2
<1> QED
  BY <1>1, <1>2, <1>3, LegitIs

\* What a panel action leaves alone; what it must keep.
LEMMA PanelStep ==
  ASSUME PanelInv, UNCHANGED <<image, view>>, moreTop' \in BOOLEAN, moreBottom' \in BOOLEAN,
         ~raced' /\ Served => Orderly'
  PROVE  PanelInv'
<1>1. Valid' /\ view' \in {"hex", "linear"} /\ (Served' <=> Served)
  BY SameImage DEF PanelInv
<1> QED
  BY <1>1 DEF PanelInv

\* A jump with nothing in flight waits for its pages with nothing shown.
LEMMA JumpKeeps ==
  ASSUME PanelInv, NEW addr \in Address, jumpTo(addr)
  PROVE  PanelInv'
<1> USE DEF jumpTo, Begin
<1> DEFINE c == Call("jump", addr)
<1>1. addr \in Nat
  BY ViewAssumption DEF Address
<1>2. c \in [kind : {"jump", "forward", "backward"}, addr : Nat, step : {1, 2}]
      /\ c.kind = "jump" /\ c.addr = addr
  BY <1>1 DEF Call
<1>3. lines' = << >> /\ loading' = TRUE
  OBVIOUS
<1>4. ASSUME ~raced' PROVE calls' = {c}
  BY <1>4
<1> HIDE DEF c
<1>5. Waits(c)'
  BY <1>2, <1>3 DEF Waits
<1>6. ASSUME ~raced', Served PROVE Orderly'
  BY <1>3, <1>4, <1>5, <1>6 DEF Orderly
<1> QED
  BY <1>6, PanelStep

\* Where a scroll asks for a page.
AtAnEnd(kind, addr) ==
  \/ kind = "forward" /\ addr = bottom.addr + bottom.size
  \/ kind = "backward" /\ addr = top.addr

\* A scroll asks for more at an end of what is shown.
LEMMA ScrollKeeps ==
  ASSUME PanelInv, NEW kind, NEW addr, Scroll(kind, addr), lines # << >>, AtAnEnd(kind, addr)
  PROVE  PanelInv'
<1> USE DEF Scroll, Begin, AtAnEnd
<1> DEFINE c == Call(kind, addr)
<1>1. lines' = lines /\ moreTop' = moreTop /\ moreBottom' = moreBottom /\ raced' = raced
      /\ ~loading /\ loading' = TRUE /\ calls' = calls \cup {c} /\ UNCHANGED <<image, view>>
  BY DEF shown
<1>2. moreTop' \in BOOLEAN /\ moreBottom' \in BOOLEAN
  BY <1>1 DEF PanelInv
<1>3. ASSUME ~raced', Served PROVE Orderly'
  <2>1. Orderly /\ Valid
    BY <1>1, <1>3 DEF PanelInv
  <2>2. calls' = {c} /\ Stretch(lines, moreTop, moreBottom)
    BY <1>1, <2>1 DEF Orderly
  <2>3. addr \in Nat
    BY <1>3, <2>1, <2>2, EndsLegit
  <2>4. c \in [kind : {"jump", "forward", "backward"}, addr : Nat, step : {1, 2}]
        /\ c.kind = kind /\ c.addr = addr
    BY <2>3 DEF Call
  <2> HIDE DEF c
  <2>5. top' = top /\ bottom' = bottom
    BY <1>1 DEF top, bottom
  <2>6. Waits(c)'
    BY <1>1, <2>4, <2>5 DEF Waits
  <2>7. Stretch(lines, moreTop, moreBottom)'
    BY <1>1, <2>2, SameStretch
  <2> QED
    BY <1>1, <2>2, <2>6, <2>7 DEF Orderly
<1> QED
  BY <1>1, <1>2, <1>3, PanelStep

\* The middle of what is shown.
LEMMA CollectKeeps ==
  ASSUME PanelInv, Collect
  PROVE  PanelInv'
<1> DEFINE i == Len(lines) \div 2 + 1
           addr == lines[i].addr
<1>1. jumpTo(addr) /\ Len(lines) > MaxLines /\ MaxLines \in Nat /\ ~loading
  BY PanelAssumption DEF Collect
<1>2. CASE addr \in Address
  BY <1>1, <1>2, JumpKeeps
<1>3. CASE ~(~raced /\ Served)
  <2>1. UNCHANGED <<image, view>> /\ moreTop' = TRUE /\ moreBottom' = TRUE /\ (raced => raced')
    BY <1>1 DEF jumpTo, Begin
  <2> QED
    BY <1>3, <2>1, PanelStep
<1>4. CASE ~raced /\ Served /\ addr \notin Address
  <2>1. Orderly /\ Valid
    BY <1>4 DEF PanelInv
  <2>2. lines # << >>
    BY <1>1
  <2>3. lines \in Seq(Lines) /\ \A x \in Shown(lines) : x \in Lines /\ Legit(x)
    BY <1>4, <2>1, <2>2, EndsLegit DEF Orderly
  <2>4. Len(lines) \in Nat /\ Len(lines) > 0
    BY <2>2, <2>3, LinesTyped
  <2>5. i \in 1..Len(lines)
    BY <2>4
  <2> DEFINE x == lines[i]
  <2>6. x \in Lines /\ Legit(x)
    BY <2>3, <2>5, LinesTyped
  <2> HIDE DEF x, i
  <2>7. x.addr \in Address
    BY <1>4, <2>1, <2>6, LegitIs
  <2> QED
    BY <1>4, <2>7 DEF x
<1> QED
  BY <1>2, <1>3, <1>4

\* A jump goes on waiting.
LEMMA HalfwayKeeps ==
  ASSUME PanelInv, NEW c \in calls, JumpHalfway(c)
  PROVE  PanelInv'
<1> USE DEF JumpHalfway
<1> DEFINE d == [c EXCEPT !.step = 2]
<1>1. lines' = lines /\ moreTop' = moreTop /\ moreBottom' = moreBottom /\ raced' = raced
      /\ loading' = loading /\ calls' = (calls \ {c}) \cup {d} /\ UNCHANGED <<image, view>>
  BY DEF shown
<1>2. moreTop' \in BOOLEAN /\ moreBottom' \in BOOLEAN
  BY <1>1 DEF PanelInv
<1>3. ASSUME ~raced', Served PROVE Orderly'
  <2>1. Orderly
    BY <1>1, <1>3 DEF PanelInv
  <2>2. calls = {c} /\ Waits(c)
    BY <2>1 DEF Orderly
  <2>3. /\ d \in [kind : {"jump", "forward", "backward"}, addr : Nat, step : {1, 2}]
        /\ d.kind = c.kind /\ d.addr = c.addr
    BY <2>2 DEF Waits
  <2> HIDE DEF d
  <2>4. top' = top /\ bottom' = bottom
    BY <1>1 DEF top, bottom
  <2>5. Waits(d)'
    BY <1>1, <2>2, <2>3, <2>4 DEF Waits
  <2>6. calls' = {d}
    BY <1>1, <2>2
  <2>7. lines' # << >> => Stretch(lines, moreTop, moreBottom)'
    BY <1>1, <2>1, SameStretch DEF Orderly
  <2> QED
    BY <1>1, <2>1, <2>5, <2>6, <2>7 DEF Orderly
<1> QED
  BY <1>1, <1>2, <1>3, PanelStep

\* A call has ended, and what it left is a stretch again.
LEMMA EndStep ==
  ASSUME PanelInv, NEW c \in calls, UNCHANGED <<image, view, raced>>,
         calls' = calls \ {c}, loading' = FALSE, moreTop' \in BOOLEAN, moreBottom' \in BOOLEAN,
         ~raced /\ Served /\ Orderly /\ lines' # << >> => Stretch(lines', moreTop', moreBottom')
  PROVE  PanelInv'
<1>1. ASSUME ~raced', Served PROVE Orderly'
  <2>1. Orderly
    BY <1>1 DEF PanelInv
  <2>2. calls' = {}
    BY <2>1 DEF Orderly
  <2>3. lines' # << >> => Stretch(lines, moreTop, moreBottom)'
    BY <1>1, <2>1, SameStretch
  <2> QED
    BY <2>2, <2>3 DEF Orderly
<1> QED
  BY <1>1, PanelStep

\* A page arrives at a panel that still shows what it was asked for.
LEMMA EndsKeeps ==
  ASSUME PanelInv, NEW c \in calls, Ends(c)
  PROVE  PanelInv'
<1>1. /\ UNCHANGED <<image, view, raced>> /\ calls' = calls \ {c} /\ loading' = FALSE
      /\ moreTop \in BOOLEAN /\ moreBottom \in BOOLEAN
  BY DEF Ends, PanelInv
<1>2. /\ Chunk \in Nat \ {0} /\ Chunk \div 2 \in Nat \ {0}
  BY PanelAssumption
<1>3. Valid /\ view \in {"hex", "linear"} /\ \A m \in All : m.addr \in Int
  BY AllIs DEF PanelInv
<1>4. CASE ForwardArrives(c)
  <2> DEFINE page == Page(c.addr, Chunk, "forward")
             a == bottom.addr + bottom.size
  <2>1. c.kind = "forward" /\ lines' = lines \o Fresh(page, lines) /\ moreBottom' = page.has_more
        /\ moreTop' = moreTop
    BY <1>4 DEF ForwardArrives
  <2>2. page.has_more \in BOOLEAN
    BY HasMoreIs
  <2>3. ASSUME ~raced, Served, Orderly PROVE Stretch(lines', moreTop', moreBottom')
    <3>1. lines # << >> /\ c.addr = a /\ Stretch(lines, moreTop, moreBottom)
      BY <2>1, <2>3 DEF Orderly, Waits
    <3>2. lines \in Seq(Lines) /\ bottom \in Lines /\ Legit(bottom) /\ bottom.addr \in Nat
          /\ bottom.size \in Nat \ {0}
      BY <1>3, <2>3, <3>1, EndsLegit
    <3>3. From(a) = a /\ \A m \in All : ~(bottom.addr < m.addr /\ m.addr < a)
      BY <1>3, <2>3, <3>2, LegitIs
    <3>4. a \in Nat /\ bottom.addr < a
      BY <3>2
    <3> HIDE DEF a
    <3>5. Ahead(page, a)
      BY <1>2, <1>3, <2>3, <3>1, <3>3, <3>4, PageAhead
    <3> HIDE DEF page
    <3>6. Stretch(lines \o Fresh(page, lines), moreTop, page.has_more)
      <4>1. bottom = lines[Len(lines)] /\ a \in Int
        BY <3>4 DEF bottom
      <4> QED
        BY <1>3, <3>1, <3>2, <3>3, <3>4, <3>5, <4>1, ForwardStretch
    <3> QED
      BY <2>1, <3>6
  <2> QED
    BY <1>1, <2>1, <2>2, <2>3, EndStep
<1>5. CASE BackwardArrives(c)
  <2> DEFINE page == Page(c.addr, Chunk, "backward")
  <2>1. c.kind = "backward" /\ lines' = Fresh(page, lines) \o lines /\ moreTop' = page.has_more
        /\ moreBottom' = moreBottom
    BY <1>5 DEF BackwardArrives
  <2>2. page.has_more \in BOOLEAN
    BY HasMoreIs
  <2>3. ASSUME ~raced, Served, Orderly PROVE Stretch(lines', moreTop', moreBottom')
    <3>1. lines # << >> /\ c.addr = top.addr /\ Stretch(lines, moreTop, moreBottom)
      BY <2>1, <2>3 DEF Orderly, Waits
    <3>2. lines \in Seq(Lines) /\ top \in Lines /\ Legit(top) /\ top.addr \in Address
      BY <1>3, <2>3, <3>1, EndsLegit
    <3>3. From(top.addr) = top.addr
      BY <1>3, <2>3, <3>2, LegitIs
    <3>4. Behind(page, top.addr)
      BY <1>2, <1>3, <2>3, <3>1, <3>2, <3>3, PageBehind
    <3> HIDE DEF page
    <3>5. Stretch(Fresh(page, lines) \o lines, page.has_more, moreBottom)
      <4>1. top = lines[1]
        BY DEF top
      <4> QED
        BY <1>3, <3>1, <3>2, <3>4, <4>1, BackwardStretch
    <3> QED
      BY <2>1, <3>5
  <2> QED
    BY <1>1, <2>1, <2>2, <2>3, EndStep
<1>6. CASE JumpArrives(c)
  <2> DEFINE fwd == Page(c.addr, Chunk, "forward")
             bwd == Page(c.addr, Chunk \div 2, "backward")
             a   == From(c.addr)
  <2>1. c.kind = "jump" /\ lines' = Fresh(bwd, fwd.lines) \o fwd.lines
        /\ moreTop' = bwd.has_more /\ moreBottom' = fwd.has_more
    BY <1>6 DEF JumpArrives
  <2>2. bwd.has_more \in BOOLEAN /\ fwd.has_more \in BOOLEAN
    BY HasMoreIs
  <2>3. ASSUME ~raced, Served, Orderly PROVE Stretch(lines', moreTop', moreBottom')
    <3>1. c.addr \in Address /\ c.addr \in Nat
      BY <2>1, <2>3 DEF Orderly, Waits
    <3>2. Ahead(fwd, a) /\ Behind(bwd, a)
      BY <1>2, <1>3, <2>3, <3>1, PageAhead, PageBehind
    <3>3. a \in Int
      BY <3>1, AlignedAddress DEF From
    <3> HIDE DEF fwd, bwd, a
    <3>4. Stretch(Fresh(bwd, fwd.lines) \o fwd.lines, bwd.has_more, fwd.has_more)
      BY <1>3, <3>2, <3>3, JumpStretch
    <3> QED
      BY <2>1, <3>4
  <2> QED
    BY <1>1, <2>1, <2>2, <2>3, EndStep
<1>7. CASE UNCHANGED shown
  <2>1. lines' = lines /\ moreTop' = moreTop /\ moreBottom' = moreBottom
    BY <1>7 DEF shown
  <2>2. ASSUME Orderly, lines' # << >> PROVE Stretch(lines', moreTop', moreBottom')
    BY <2>1, <2>2 DEF Orderly
  <2> QED
    BY <1>1, <2>1, <2>2, EndStep
<1> QED
  BY <1>4, <1>5, <1>6, <1>7 DEF Ends

\* The invariant of the panel.
THEOREM StretchInvariant == Spec => []PanelInv
<1>1. ASSUME PanelInv, [Next]_vars PROVE PanelInv'
  <2>1. CASE Jump
    <3>1. PICK addr \in Address : jumpTo(addr)
      BY <2>1, PanelAssumption DEF Jump
    <3> QED
      BY <1>1, <3>1, JumpKeeps
  <2>2. CASE ScrollDown
    <3> DEFINE addr == bottom.addr + bottom.size
    <3>1. lines # << >> /\ Scroll("forward", addr) /\ AtAnEnd("forward", addr)
      BY <2>2 DEF ScrollDown, AtAnEnd
    <3> HIDE DEF addr
    <3> QED
      BY <1>1, <3>1, ScrollKeeps
  <2>3. CASE ScrollUp
    <3>1. AtAnEnd("backward", top.addr)
      BY DEF AtAnEnd
    <3> QED
      BY <1>1, <2>3, <3>1, ScrollKeeps DEF ScrollUp
  <2>4. CASE Collect
    BY <1>1, <2>4, CollectKeeps
  <2>5. CASE \E c \in calls : JumpHalfway(c)
    BY <1>1, <2>5, HalfwayKeeps
  <2>6. CASE \E c \in calls : Ends(c)
    BY <1>1, <2>6, EndsKeeps
  <2>7. CASE UNCHANGED vars
    <3>1. UNCHANGED <<image, view, lines, moreTop, moreBottom, loading, calls, raced>>
      BY <2>7 DEF vars, shown
    <3>2. moreTop' \in BOOLEAN /\ moreBottom' \in BOOLEAN
      BY <1>1, <3>1 DEF PanelInv
    <3>3. top' = top /\ bottom' = bottom
      BY <3>1 DEF top, bottom
    <3>4. ASSUME ~raced', Served PROVE Orderly'
      <4>1. Orderly
        BY <1>1, <3>1, <3>4 DEF PanelInv
      <4>2. \A c \in calls : Waits(c)'
        BY <3>1, <3>3, <4>1 DEF Orderly, Waits
      <4>3. lines' # << >> => Stretch(lines, moreTop, moreBottom)'
        BY <3>1, <4>1, SameStretch DEF Orderly
      <4> QED
        BY <3>1, <4>1, <4>2, <4>3 DEF Orderly
    <3> QED
      BY <1>1, <3>1, <3>2, <3>4, PanelStep
  <2> QED
    BY <1>1, <2>1, <2>2, <2>3, <2>4, <2>5, <2>6, <2>7 DEF Next
<1> QED
  BY <1>1, InitPanel, PTL DEF Spec

\* Before is an order.
LEMMA BeforeIs ==
  ASSUME NEW x, NEW y, x.addr \in Int, y.addr \in Int
  PROVE  /\ Before(x, y) => ~Before(y, x) /\ x # y /\ x.addr <= y.addr
         /\ x.addr < y.addr => Before(x, y)
BY DEF Before

\* What a stretch shows.
LEMMA StretchShows ==
  ASSUME Valid, Served, lines # << >>, Stretch(lines, moreTop, moreBottom)
  PROVE  /\ InOrder(lines) /\ Between \subseteq Shown(lines)
         /\ \A x \in Shown(lines) : x \in All => x \in Between
         /\ Exact => /\ Shown(lines) \subseteq All
                     /\ moreTop <=> \E l \in All : Before(l, top)
                     /\ moreBottom <=> \E l \in All : Before(bottom, l)
<1>1. PICK lo, hi \in Int :
        /\ Covers(lines, lo, hi)
        /\ Exact => /\ moreTop <=> \E m \in All : m.addr <= lo
                    /\ moreBottom <=> \E m \in All : hi <= m.addr
  BY DEF Stretch
<1>2. /\ lines \in Seq(Lines) /\ InOrder(lines)
      /\ \A x \in Shown(lines) : Legit(x) /\ lo < x.addr /\ x.addr < hi
      /\ \A m \in All : lo < m.addr /\ m.addr < hi => m \in Shown(lines)
  BY <1>1 DEF Covers
<1>3. \A m \in All : m.addr \in Int
  BY AllIs DEF Served
<1>4. /\ top \in Shown(lines) /\ bottom \in Shown(lines)
      /\ top.addr \in Int /\ bottom.addr \in Int
      /\ \A x \in Shown(lines) : /\ x.addr \in Int
                                 /\ x = top \/ Before(top, x)
                                 /\ x = bottom \/ Before(x, bottom)
  BY <1>2, LinesTyped, EndsOfLines DEF top, bottom
<1>5. lo < top.addr /\ top.addr < hi /\ lo < bottom.addr /\ bottom.addr < hi
  BY <1>2, <1>4
<1>6. ASSUME NEW m \in All, ~Before(m, top), ~Before(bottom, m) PROVE m \in Shown(lines)
  <2>1. m.addr \in Int /\ top.addr <= m.addr /\ m.addr <= bottom.addr
    BY <1>3, <1>4, <1>6, BeforeIs
  <2> QED
    BY <1>2, <1>4, <1>5, <2>1
<1>7. ASSUME NEW m \in Shown(lines) PROVE ~Before(m, top) /\ ~Before(bottom, m)
  BY <1>4, BeforeIs
<1>8. (\E m \in All : m.addr <= lo) <=> (\E l \in All : Before(l, top))
  <2>1. ASSUME NEW m \in All, m.addr <= lo PROVE Before(m, top)
    BY <1>3, <1>4, <1>5, <2>1, BeforeIs
  <2>2. ASSUME NEW m \in All, Before(m, top) PROVE m.addr <= lo
    <3>1. m.addr \in Int /\ m.addr <= top.addr /\ m \notin Shown(lines)
      BY <1>3, <1>4, <1>7, <2>2, BeforeIs
    <3> QED
      BY <1>2, <1>4, <1>5, <3>1
  <2> QED
    BY <2>1, <2>2
<1>9. (\E m \in All : hi <= m.addr) <=> (\E l \in All : Before(bottom, l))
  <2>1. ASSUME NEW m \in All, hi <= m.addr PROVE Before(bottom, m)
    BY <1>3, <1>4, <1>5, <2>1, BeforeIs
  <2>2. ASSUME NEW m \in All, Before(bottom, m) PROVE hi <= m.addr
    <3>1. m.addr \in Int /\ bottom.addr <= m.addr /\ m \notin Shown(lines)
      BY <1>3, <1>4, <1>7, <2>2, BeforeIs
    <3> QED
      BY <1>2, <1>4, <1>5, <3>1
  <2> QED
    BY <2>1, <2>2
<1>10. Between \subseteq Shown(lines) /\ \A x \in Shown(lines) : x \in All => x \in Between
  BY <1>6, <1>7 DEF Between
<1>11. Exact => Shown(lines) \subseteq All
  BY <1>2 DEF Legit
<1> QED
  BY <1>1, <1>2, <1>8, <1>9, <1>10, <1>11

\* The panel shows one stretch of the database, and knows whether there is more: for
\* every database, every size of pages and however the user scrolls and jumps, but for
\* jumps while a call is in flight.
THEOREM StretchHolds == Spec => []PanelIsAStretch
<1>1. ASSUME PanelInv PROVE PanelIsAStretch
  <2> SUFFICES ASSUME ~raced, lines # << >>, view = "hex" => Regular, view = "linear" => Explored
               PROVE  /\ InOrder(lines) /\ Shown(lines) = Between
                      /\ moreTop    = \E l \in All : Before(l, top)
                      /\ moreBottom = \E l \in All : Before(bottom, l)
    BY DEF PanelIsAStretch
  <2>1. Valid /\ Served /\ Exact /\ Orderly /\ moreTop \in BOOLEAN /\ moreBottom \in BOOLEAN
    BY <1>1 DEF PanelInv, Served, Exact
  <2>2. Stretch(lines, moreTop, moreBottom)
    BY <2>1 DEF Orderly
  <2>3. /\ InOrder(lines) /\ Shown(lines) = Between
        /\ moreTop <=> \E l \in All : Before(l, top)
        /\ moreBottom <=> \E l \in All : Before(bottom, l)
    BY <2>1, <2>2, StretchShows
  <2> QED
    BY <2>1, <2>3
<1> QED
  BY <1>1, StretchInvariant, PTL

\* The linear view loses no head, whatever is unexplored.
THEOREM HeadsStay == Spec => []NoHeadIsLost
<1>1. ASSUME PanelInv PROVE NoHeadIsLost
  <2> SUFFICES ASSUME view = "linear", ~raced, lines # << >>
               PROVE  InOrder(lines) /\ {l \in Shown(lines) : l.what # "unknown"} = Between
    BY DEF NoHeadIsLost
  <2>1. Valid /\ Served /\ Orderly
    BY <1>1 DEF PanelInv, Served
  <2>2. Stretch(lines, moreTop, moreBottom)
    BY <2>1 DEF Orderly
  <2>3. /\ InOrder(lines) /\ Between \subseteq Shown(lines)
        /\ \A x \in Shown(lines) : x \in All => x \in Between
    BY <2>1, <2>2, StretchShows
  <2>4. \A x \in Shown(lines) : x \in All \/ x.what = "unknown"
    BY <2>2 DEF Stretch, Covers, Legit, Unseen
  <2>5. \A m \in All : m.what # "unknown"
    <3> SUFFICES ASSUME NEW m \in All PROVE m.what # "unknown"
      OBVIOUS
    <3>1. is_head(m.addr) /\ (m = _emit_line(m.addr) \/ m = Line(m.addr, "header", 1))
      BY <2>1, HeadLines
    <3>2. in_segment(m.addr) /\ m.addr \in Int
      BY <2>1, <3>1, HeadIs, ViewAssumption DEF Address
    <3>3. _emit_line(m.addr).what = "item"
      BY <2>1, <3>1, <3>2, LineIs
    <3> QED
      BY <3>1, <3>3 DEF Line
  <2>6. Between \subseteq All
    BY DEF Between
  <2> QED
    BY <2>3, <2>4, <2>5, <2>6
<1> QED
  BY <1>1, StretchInvariant, PTL

\* hex_view's forward pages lose no mapped byte, whatever the segments.
THEOREM ForwardHolds == Spec => []ForwardCovers
<1>1. ASSUME PanelInv PROVE ForwardCovers
  <2> SUFFICES ASSUME NEW addr \in Address, NEW count \in 1..Chunk
               PROVE  LET page == hex_view(addr, count, "forward")
                          rows == page.lines
                          end  == IF page.has_more THEN rows[Len(rows)].addr + Row ELSE max_ea
                      IN /\ InOrder(rows)
                         /\ \A b \in Address : Align(addr) <= b /\ b < end /\ in_segment(b) =>
                              \E r \in Shown(rows) : r.addr <= b /\ b < r.addr + Row
    BY DEF ForwardCovers
  <2>1. Valid /\ addr \in Nat /\ count \in Nat \ {0}
    BY <1>1, PanelAssumption, ViewAssumption DEF PanelInv, Address
  <2> QED
    BY <2>1, HexCovers
<1> QED
  BY <1>1, StretchInvariant, PTL

-----------------------------------------------------------------------------
(* overview_scan. *)

\* The types of regions.
Types == Kind \cup {"unknown"}

\* Regions that tile the addresses from first to end, with every head in one of its kind.
Tiled(rs, first, end) ==
  /\ rs \in Seq(Regions) /\ rs # << >> /\ rs[1].start = first /\ rs[Len(rs)].end = end
  /\ \A k \in 1..Len(rs) : rs[k].start < rs[k].end
  /\ \A k \in 2..Len(rs) : rs[k].start = rs[k - 1].end /\ rs[k].type # rs[k - 1].type
  /\ \A t \in items : first <= t.at /\ t.at < end =>
       \E k \in 1..Len(rs) : rs[k].start <= t.at /\ t.at < rs[k].end /\ rs[k].type = t.kind

\* A region is added.
LEMMA RegionAdded ==
  ASSUME NEW rs \in Seq(Regions), NEW st \in Int, NEW end \in Int, NEW type \in Types
  PROVE  LET r == Region(st, end, type)
             u == rs \o <<r>>
         IN /\ r.start = st /\ r.end = end /\ r.type = type /\ u \in Seq(Regions)
            /\ Len(rs) \in Nat /\ Len(u) = Len(rs) + 1
            /\ (\A k \in 1..Len(rs) : u[k] = rs[k]) /\ u[Len(rs) + 1] = r /\ u # << >>
<1> DEFINE r == Region(st, end, type)
           one == <<r>>
           u == rs \o one
<1>1. r \in Regions /\ r.start = st /\ r.end = end /\ r.type = type
  BY DEF Region, Regions, Types
<1> HIDE DEF r
<1>2. one \in Seq(Regions) /\ Len(one) = 1 /\ one[1] = r
  BY <1>1
<1> HIDE DEF one
<1>3. /\ u \in Seq(Regions) /\ Len(u) = Len(rs) + Len(one)
      /\ \A k \in 1..Len(u) : u[k] = IF k <= Len(rs) THEN rs[k] ELSE one[k - Len(rs)]
  BY <1>2, ConcatProperties
<1>4. Len(rs) \in Nat
  BY LenProperties
<1> HIDE DEF u
<1>5. Len(u) = Len(rs) + 1 /\ (\A k \in 1..Len(rs) : u[k] = rs[k]) /\ u[Len(rs) + 1] = r
  <2>1. (Len(rs) + 1) - Len(rs) = 1 /\ Len(rs) + 1 \in 1..Len(u)
    BY <1>2, <1>3, <1>4
  <2> QED
    BY <1>2, <1>3, <1>4, <2>1
<1>6. u # << >>
  BY <1>3, <1>4, <1>5, EmptySeq
<1> QED
  BY <1>1, <1>3, <1>4, <1>5, <1>6 DEF u, r, one

\* The first region.
LEMMA TiledOnce ==
  ASSUME NEW first \in Int, NEW end \in Int, first < end, NEW type \in Types,
         \A t \in items : first <= t.at /\ t.at < end => t.kind = type,
         NEW none, none = << >>
  PROVE  Tiled(none \o <<Region(first, end, type)>>, first, end)
<1> DEFINE u == none \o <<Region(first, end, type)>>
<1>1. none \in Seq(Regions) /\ Len(none) = 0
  OBVIOUS
<1> DEFINE r == Region(first, end, type)
<1>0. /\ r.start = first /\ r.end = end /\ r.type = type /\ u \in Seq(Regions)
      /\ Len(none) \in Nat /\ Len(u) = Len(none) + 1
      /\ (\A k \in 1..Len(none) : u[k] = none[k]) /\ u[Len(none) + 1] = r /\ u # << >>
  <2>1. none \in Seq(Regions)
    BY <1>1
  <2> QED
    BY ONLY <2>1, first \in Int, end \in Int, type \in Types, RegionAdded
<1> HIDE DEF u, r
<1>2. /\ u \in Seq(Regions) /\ Len(u) = 1 /\ u # << >>
      /\ u[1].start = first /\ u[1].end = end /\ u[1].type = type
  BY <1>0, <1>1
<1>3. \A k \in 1..Len(u) : k = 1
  BY <1>2
<1>4. 1 \in 1..Len(u) /\ Len(u) \in 1..Len(u)
  BY <1>2
<1>5. /\ \A k \in 1..Len(u) : u[k].start < u[k].end
      /\ \A k \in 2..Len(u) : u[k].start = u[k - 1].end /\ u[k].type # u[k - 1].type
  BY <1>2, <1>3
<1>6. \A t \in items : first <= t.at /\ t.at < end =>
        \E k \in 1..Len(u) : u[k].start <= t.at /\ t.at < u[k].end /\ u[k].type = t.kind
  BY <1>2, <1>4
<1>7. Tiled(u, first, end)
  BY <1>2, <1>5, <1>6 DEF Tiled
<1> QED
  BY <1>7 DEF u, r

\* The next one, of another type.
LEMMA TiledOther ==
  ASSUME NEW rs, NEW first \in Int, NEW at \in Int, NEW end \in Int, Tiled(rs, first, at), at < end,
         NEW type \in Types, rs[Len(rs)].type # type,
         \A t \in items : t.at \in Int /\ (at <= t.at /\ t.at < end => t.kind = type)
  PROVE  Tiled(rs \o <<Region(at, end, type)>>, first, end)
<1> DEFINE u == rs \o <<Region(at, end, type)>>
           n == Len(rs)
           r == Region(at, end, type)
<1>1. rs \in Seq(Regions)
  BY DEF Tiled
<1>2. /\ r.start = at /\ r.end = end /\ r.type = type /\ u \in Seq(Regions)
      /\ n \in Nat /\ Len(u) = n + 1 /\ u # << >>
      /\ (\A k \in 1..n : u[k] = rs[k]) /\ u[n + 1] = r
  BY <1>1, RegionAdded
<1>3. n > 0
  BY <1>1, <1>2, EmptySeq DEF Tiled
<1> HIDE DEF u, r
<1>4. /\ rs[1].start = first /\ rs[n].end = at
      /\ \A k \in 1..n : rs[k].start < rs[k].end
      /\ \A k \in 2..n : rs[k].start = rs[k - 1].end /\ rs[k].type # rs[k - 1].type
  BY DEF Tiled
<1> HIDE DEF n
<1>5. u[1].start = first /\ u[Len(u)].end = end
  BY <1>2, <1>3, <1>4
<1>6. \A k \in 1..Len(u) : u[k].start < u[k].end
  BY <1>2, <1>4
<1>7. \A k \in 2..Len(u) : u[k].start = u[k - 1].end /\ u[k].type # u[k - 1].type
  <2> SUFFICES ASSUME NEW k \in 2..Len(u)
               PROVE  u[k].start = u[k - 1].end /\ u[k].type # u[k - 1].type
    OBVIOUS
  <2>1. k - 1 \in 1..n /\ u[k - 1] = rs[k - 1]
    BY <1>2
  <2>2. CASE k = n + 1
    BY <1>2, <1>4, <2>1, <2>2 DEF n
  <2>3. CASE k # n + 1
    <3>1. k \in 2..n /\ k \in 1..n
      BY <1>2, <2>3
    <3> QED
      BY <1>2, <1>4, <2>1, <3>1
  <2> QED
    BY <2>2, <2>3
<1>8. ASSUME NEW t \in items, first <= t.at, t.at < end
      PROVE  \E k \in 1..Len(u) : u[k].start <= t.at /\ t.at < u[k].end /\ u[k].type = t.kind
  <2>1. CASE t.at < at
    <3>1. PICK k \in 1..n : rs[k].start <= t.at /\ t.at < rs[k].end /\ rs[k].type = t.kind
      BY <1>8, <2>1 DEF Tiled, n
    <3>2. k \in 1..Len(u) /\ u[k] = rs[k]
      BY <1>2
    <3> QED
      BY <3>1, <3>2
  <2>2. CASE ~(t.at < at)
    <3>1. n + 1 \in 1..Len(u) /\ t.at \in Int
      BY <1>2
    <3> QED
      BY <1>2, <1>8, <2>2, <3>1
  <2> QED
    BY <2>1, <2>2
<1>9. Tiled(u, first, end)
  BY <1>2, <1>5, <1>6, <1>7, <1>8 DEF Tiled
<1> QED
  BY <1>9 DEF u, r

\* The last one goes on.
LEMMA TiledSame ==
  ASSUME NEW rs \in Seq(Regions), NEW first \in Int,
         NEW st \in Int, NEW at \in Int, NEW end \in Int,
         NEW type \in Types, Tiled(rs \o <<Region(st, at, type)>>, first, at), at < end,
         \A t \in items : t.at \in Int /\ (at <= t.at /\ t.at < end => t.kind = type)
  PROVE  Tiled(rs \o <<Region(st, end, type)>>, first, end)
<1> DEFINE u == rs \o <<Region(st, at, type)>>
           v == rs \o <<Region(st, end, type)>>
           n == Len(rs)
           q == Region(st, at, type)
           r == Region(st, end, type)
<1>1. /\ q.start = st /\ q.end = at /\ q.type = type /\ u \in Seq(Regions)
      /\ n \in Nat /\ Len(u) = n + 1 /\ (\A k \in 1..n : u[k] = rs[k]) /\ u[n + 1] = q
  BY RegionAdded
<1>2. /\ r.start = st /\ r.end = end /\ r.type = type /\ v \in Seq(Regions)
      /\ Len(v) = n + 1 /\ v # << >> /\ (\A k \in 1..n : v[k] = rs[k]) /\ v[n + 1] = r
  BY RegionAdded
<1> HIDE DEF q, r, u, v, n
<1>3. Tiled(u, first, at)
  BY DEF u, q
<1>4. /\ u[1].start = first
      /\ \A k \in 1..n + 1 : u[k].start < u[k].end
      /\ \A k \in 2..n + 1 : u[k].start = u[k - 1].end /\ u[k].type # u[k - 1].type
      /\ \A t \in items : first <= t.at /\ t.at < at =>
           \E k \in 1..n + 1 : u[k].start <= t.at /\ t.at < u[k].end /\ u[k].type = t.kind
  BY <1>1, <1>3 DEF Tiled
<1>5. \A k \in 1..n + 1 : /\ v[k].start = u[k].start /\ v[k].type = u[k].type
                          /\ k # n + 1 => v[k].end = u[k].end
                          /\ k = n + 1 => u[k].end = at /\ v[k].end = end
  <2> SUFFICES ASSUME NEW k \in 1..n + 1
               PROVE  /\ v[k].start = u[k].start /\ v[k].type = u[k].type
                      /\ k # n + 1 => v[k].end = u[k].end
                      /\ k = n + 1 => u[k].end = at /\ v[k].end = end
    OBVIOUS
  <2>1. CASE k = n + 1
    BY <1>1, <1>2, <2>1
  <2>2. CASE k # n + 1
    <3>1. k \in 1..n
      BY <1>1, <2>2
    <3> QED
      BY <1>1, <1>2, <2>2, <3>1
  <2> QED
    BY <2>1, <2>2
<1>6. v[1].start = first /\ v[Len(v)].end = end
  <2>1. 1 \in 1..n + 1 /\ n + 1 \in 1..n + 1
    BY <1>1
  <2> QED
    BY <1>2, <1>4, <1>5, <2>1
<1>7. \A k \in 1..n + 1 : v[k].start < v[k].end
  <2>1. n + 1 \in 1..n + 1 /\ st < at
    BY <1>1, <1>4
  <2> QED
    BY <1>1, <1>2, <1>4, <1>5, <2>1
<1>8. \A k \in 2..n + 1 : v[k].start = v[k - 1].end /\ v[k].type # v[k - 1].type
  <2> SUFFICES ASSUME NEW k \in 2..n + 1
               PROVE  v[k].start = v[k - 1].end /\ v[k].type # v[k - 1].type
    OBVIOUS
  <2>1. k \in 1..n + 1 /\ k - 1 \in 1..n + 1 /\ k - 1 # n + 1
    BY <1>1
  <2> QED
    BY <1>4, <1>5, <2>1
<1>9. ASSUME NEW t \in items, first <= t.at, t.at < end
      PROVE  \E k \in 1..n + 1 : v[k].start <= t.at /\ t.at < v[k].end /\ v[k].type = t.kind
  <2>0. n + 1 \in 1..n + 1 /\ t.at \in Int /\ st < at
    BY <1>1, <1>4
  <2>1. CASE t.at < at
    <3>1. PICK k \in 1..n + 1 : u[k].start <= t.at /\ t.at < u[k].end /\ u[k].type = t.kind
      BY <1>4, <1>9, <2>1
    <3>2. CASE k = n + 1
      BY <1>5, <1>9, <3>1, <3>2
    <3>3. CASE k # n + 1
      BY <1>5, <3>1, <3>3
    <3> QED
      BY <3>2, <3>3
  <2>2. CASE ~(t.at < at)
    <3>1. t.kind = type
      BY <1>9, <2>0, <2>2
    <3> QED
      BY <1>2, <1>9, <2>0, <2>2, <3>1
  <2> QED
    BY <2>1, <2>2
<1>10. Tiled(v, first, end)
  BY <1>2, <1>6, <1>7, <1>8, <1>9 DEF Tiled
<1> QED
  BY <1>10 DEF v, r

\* The regions so far, the last one up to where the scan is.
Closed(s) == s.regions \o <<Region(s.start, s.ea, s.type)>>

\* The scan is in the segment, and has tiled it so far.
ScanInv(first, end) ==
  {s \in Scanning :
     /\ first <= s.ea /\ s.ea <= end
     /\ s.type = "none" => s.ea = first /\ s.start = first /\ s.regions = << >>
     /\ s.type # "none" => Tiled(Closed(s), first, s.ea)}

\* Where it ends.
ScanOver(end) == {s \in Scanning : s.ea >= end}

\* The type at an address: a head's is its item's kind.
LEMMA TypeAtIs ==
  ASSUME Valid, NEW a \in Int
  PROVE  /\ TypeAt(a) \in Types /\ TypeAt(a) # "none"
         /\ \A t \in items : t.at = a => t.kind = TypeAt(a)
<1>1. is_head(a) => Item(a).kind \in Kind
  BY HeadIs
<1>2. TypeAt(a) \in Types /\ TypeAt(a) # "none"
  BY <1>1 DEF TypeAt, Types, Kind
<1>3. ASSUME NEW t \in items, t.at = a PROVE t.kind = TypeAt(a)
  BY <1>3, ItemOf DEF TypeAt
<1> QED
  BY <1>2, <1>3

\* A turn keeps that, and goes up.
LEMMA ScanStep ==
  ASSUME Valid, NEW first \in Int, NEW end \in Int, NEW s \in ScanInv(first, end),
         s \notin ScanOver(end)
  PROVE  LET t == ScanTurn(end)[s] IN
         t \in ScanInv(first, end) /\ s.ea \in Int /\ t.ea \in Int /\ s.ea < t.ea /\ s.ea < end
<1> DEFINE nxt == next_head(s.ea, end)
           e == IF nxt = BADADDR THEN end ELSE nxt
           ty == TypeAt(s.ea)
           st == IF s.type = ty THEN s.start ELSE s.ea
           rs == IF s.type \in {"none", ty} THEN s.regions
                 ELSE s.regions \o <<Region(s.start, s.ea, s.type)>>
           t == ScanTurn(end)[s]
<1>1. s \in Scanning /\ first <= s.ea /\ s.ea <= end
  BY DEF ScanInv
<1>2. /\ s.ea \in Int /\ s.start \in Int /\ s.regions \in Seq(Regions)
      /\ s.type \in Types \cup {"none"}
  BY <1>1 DEF Scanning, Types
<1>3. s.ea < end
  BY <1>1, <1>2 DEF ScanOver
<1>4. t = [ea |-> e, type |-> ty, start |-> st, regions |-> rs]
  BY <1>1, <1>2, <1>3 DEF ScanTurn
<1>5. /\ nxt = BADADDR => \A b \in Int : s.ea < b /\ b < end => ~is_head(b)
      /\ nxt # BADADDR => /\ is_head(nxt) /\ nxt \in Address /\ s.ea < nxt /\ nxt < end
                          /\ \A b \in Int : s.ea < b /\ b < nxt => ~is_head(b)
  BY <1>2, NextHead
<1> HIDE DEF nxt
<1>6. e \in Int /\ s.ea < e /\ e <= end /\ \A b \in Int : s.ea < b /\ b < e => ~is_head(b)
  BY <1>3, <1>5, ViewAssumption DEF Address
<1>7. ty \in Types /\ ty # "none" /\ \A x \in items : x.at = s.ea => x.kind = ty
  BY <1>2, TypeAtIs
<1> HIDE DEF e, ty, t
<1>8. \A x \in items : x.at \in Int /\ (s.ea <= x.at /\ x.at < e => x.kind = ty)
  <2>1. \A x \in items : x.at \in Int /\ is_head(x.at)
    BY ItemOf DEF Valid, WellFormed
  <2> QED
    BY <1>2, <1>6, <1>7, <2>1
<1>9. Tiled(rs \o <<Region(st, e, ty)>>, first, e) /\ rs \in Seq(Regions) /\ st \in Int
  <2>1. CASE s.type = "none"
    <3>1. rs = << >> /\ st = first /\ s.ea = first
      BY <1>1, <1>7, <2>1 DEF ScanInv
    <3>2. first < e /\ \A x \in items : first <= x.at /\ x.at < e => x.kind = ty
      BY <1>6, <1>8, <3>1
    <3> HIDE DEF rs
    <3>3. Tiled(rs \o <<Region(first, e, ty)>>, first, e)
      BY <1>6, <1>7, <3>1, <3>2, TiledOnce
    <3>4. rs \in Seq(Regions) /\ st \in Int
      BY <3>1
    <3> QED
      BY <3>1, <3>3, <3>4
  <2>2. CASE s.type = ty
    <3>1. rs = s.regions /\ st = s.start
      BY <2>2
    <3>2. Tiled(s.regions \o <<Region(s.start, s.ea, ty)>>, first, s.ea)
      BY <1>7, <2>2 DEF ScanInv, Closed
    <3>3. Tiled(s.regions \o <<Region(s.start, e, ty)>>, first, e)
      BY <1>2, <1>6, <1>7, <1>8, <3>2, TiledSame
    <3> QED
      BY <1>2, <3>1, <3>3
  <2>3. CASE s.type \notin {"none", ty}
    <3> DEFINE u == Closed(s)
    <3>1. rs = u /\ st = s.ea
      BY <2>3 DEF Closed
    <3>2. Tiled(u, first, s.ea) /\ u \in Seq(Regions)
      BY <2>3 DEF ScanInv, Tiled
    <3>3. u[Len(u)].type # ty
      <4>1. s.type \in Types
        BY <1>2, <2>3
      <4> DEFINE q == Region(s.start, s.ea, s.type)
      <4>2. q.type = s.type /\ Len(u) = Len(s.regions) + 1 /\ u[Len(s.regions) + 1] = q
        BY <1>2, <4>1, RegionAdded DEF Closed
      <4> HIDE DEF q, u
      <4> QED
        BY <2>3, <4>2
    <3> HIDE DEF u
    <3>4. Tiled(u \o <<Region(s.ea, e, ty)>>, first, e)
      BY <1>2, <1>6, <1>7, <1>8, <3>2, <3>3, TiledOther
    <3> QED
      BY <1>2, <3>1, <3>2, <3>4
  <2> QED
    BY <2>1, <2>2, <2>3
<1> HIDE DEF rs, st
<1>10. t.ea = e /\ t.type = ty /\ t.start = st /\ t.regions = rs /\ t \in Scanning
  BY <1>4, <1>6, <1>7, <1>9 DEF Scanning, Types
<1>11. Tiled(Closed(t), first, t.ea)
  BY <1>9, <1>10 DEF Closed
<1>12. t \in ScanInv(first, end)
  BY <1>1, <1>2, <1>6, <1>7, <1>10, <1>11 DEF ScanInv
<1> QED
  BY <1>2, <1>3, <1>6, <1>10, <1>12 DEF t

\* The scan of a segment tiles it.
LEMMA SegmentTiled ==
  ASSUME Valid, NEW first \in Nat, NEW end \in Nat, first < end, end <= MaxAddr
  PROVE  Tiled(ScanSegment(first, end), first, end)
<1> DEFINE I == ScanInv(first, end)
           Over == ScanOver(end)
           turn == ScanTurn(end)
           from == [ea |-> first, type |-> "none", start |-> first, regions |-> << >>]
           variant == [s \in I |-> s.ea]
           s == Loop(turn, from)[Turns]
<1>1. from \in I /\ from.ea = first
  <2>1. from \in Scanning
    BY DEF Scanning
  <2> QED
    BY <2>1 DEF ScanInv
<1>2. \A r \in I : r \in Over => turn[r] = r
  BY DEF ScanOver, ScanTurn
<1>3. \A r \in I : r \notin Over =>
        turn[r] \in I /\ r.ea \in Int /\ turn[r].ea \in Int /\ r.ea < turn[r].ea /\ r.ea < end
  BY ScanStep
<1>4. \A r \in I : r.ea \in Int
  BY DEF ScanInv, Scanning
<1>5. Turns \in Nat /\ end < Turns
  BY TurnsIs, ViewAssumption
<1>6. ScanSegment(first, end) = s.regions \o <<Region(s.start, end, s.type)>>
  BY DEF ScanSegment
<1> HIDE DEF I, Over, turn, from
<1>7. variant \in [I -> Int] /\ variant[from] >= 0
  BY <1>1, <1>4
<1>8. \A r \in I : turn[r] \in I /\ (r \in Over => turn[r] \in Over)
  BY <1>2, <1>3
<1>9. \A r \in I : r \notin Over =>
        variant[r] < Turns /\ (turn[r] \notin Over => variant[turn[r]] > variant[r])
  BY <1>3, <1>4, <1>5, <1>8
<1> HIDE DEF variant
<1>10. Progresses(I, turn, Over, variant, Turns)
  BY <1>7, <1>8, <1>9 DEF Progresses
<1>11. s \in I \cap Over
  BY <1>1, <1>5, <1>7, <1>10, LoopEnds
<1> HIDE DEF s
<1>12. s.ea = end
  <2>1. s.ea \in Int /\ s.ea <= end /\ s.ea >= end
    BY <1>4, <1>11 DEF I, Over, ScanInv, ScanOver
  <2> QED
    BY <2>1
<1>13. Tiled(Closed(s), first, s.ea)
  BY <1>11, <1>12 DEF I, ScanInv
<1> QED
  BY <1>6, <1>12, <1>13 DEF Closed

\* overview_scan's regions tile the segments of every database, and show every head.
THEOREM OverviewHolds == Spec => []OverviewTiles
<1>1. ASSUME PanelInv PROVE OverviewTiles
  <2> SUFFICES ASSUME NEW i \in 1..Len(segments)
               PROVE  LET rs == overview_scan[i] IN
                      /\ rs # << >>
                      /\ rs[1].start = segments[i].first /\ rs[Len(rs)].end = segments[i].end
                      /\ \A k \in 1..Len(rs) : rs[k].start < rs[k].end
                      /\ \A k \in 2..Len(rs) :
                           rs[k].start = rs[k - 1].end /\ rs[k].type # rs[k - 1].type
                      /\ \A t \in items : segments[i].first <= t.at /\ t.at < segments[i].end =>
                           \E k \in 1..Len(rs) :
                             rs[k].start <= t.at /\ t.at < rs[k].end /\ rs[k].type = t.kind
    BY DEF OverviewTiles
  <2> DEFINE first == segments[i].first
             end   == segments[i].end
             rs    == overview_scan[i]
  <2>1. Valid
    BY <1>1 DEF PanelInv
  <2>2. first \in Nat /\ end \in Nat /\ first < end /\ end <= MaxAddr
    BY <2>1, Segments
  <2>3. rs = ScanSegment(first, end)
    BY DEF overview_scan
  <2> HIDE DEF first, end, rs
  <2>4. Tiled(rs, first, end)
    BY <2>1, <2>2, <2>3, SegmentTiled
  <2> QED
    BY <2>4 DEF Tiled, first, end, rs
<1> QED
  BY <1>1, StretchInvariant, PTL

-----------------------------------------------------------------------------
(* Every loop ends. *)

\* A turn of hex_view backward goes down, whatever the segments.
LEMMA HexBackwardStep ==
  ASSUME Valid, NEW s \in Listing, s \notin HexBackwardOver
  PROVE  HexBackward[s] \in Listing /\ HexBackward[s].cur < s.cur /\ s.cur >= 0
<1> DEFINE p == prev_seg_addr(s.cur)
           row == Line(s.cur, "row", Row)
           one == <<row>>
           t == HexBackward[s]
<1>0. min_ea \in Nat /\ Row \in Nat \ {0}
  BY Segments, ViewAssumption
<1>1. /\ s.cur \in Int /\ s.left \in Nat /\ s.lines \in Seq(Lines) /\ s.left # 0
      /\ s.cur >= min_ea /\ p # BADADDR
  BY <1>0 DEF Listing, HexBackwardOver
<1>2. t = IF in_segment(s.cur)
          THEN [cur |-> s.cur - Row, left |-> s.left - 1, lines |-> one \o s.lines]
          ELSE [s EXCEPT !.cur = p]
  BY <1>0, <1>1 DEF HexBackward
<1>3. row \in Lines
  BY <1>0, <1>1 DEF Line, Lines
<1> HIDE DEF row
<1>4. one \in Seq(Lines)
  BY <1>3, OneLine
<1>5. ~in_segment(s.cur) => p \in Int /\ p < s.cur
  <2> SUFFICES ASSUME ~in_segment(s.cur) PROVE p \in Int /\ p < s.cur
    OBVIOUS
  <2> DEFINE g == get_prev_seg(s.cur)
             f == EndOf(g)
             r == f - Row
  <2>1. g # BADADDR /\ p = Align(r)
    BY <1>1 DEF prev_seg_addr
  <2>2. f \in Nat /\ f <= s.cur
    <3>1. f <= s.cur /\ \E i \in 1..Len(segments) : f = segments[i].end
      BY <1>1, <2>1, PreviousSegment
    <3> QED
      BY <3>1, Segments
  <2> HIDE DEF f
  <2>3. r \in Int /\ r < s.cur
    BY <1>0, <1>1, <2>2
  <2> HIDE DEF r, p
  <2> QED
    BY <1>1, <2>1, <2>3, AlignIs
<1> HIDE DEF p, one, t
<1>6. one \o s.lines \in Seq(Lines)
  BY <1>1, <1>4, Joined
<1>7. t \in Listing /\ t.cur < s.cur /\ s.cur >= 0
  BY <1>0, <1>1, <1>2, <1>5, <1>6 DEF Listing
<1> QED
  BY <1>7 DEF t

\* hex_view backward, whatever the segments.
LEMMA HexBackwardStops ==
  ASSUME Valid, NEW a \in Address, NEW count \in Nat
  PROVE  Listed(HexBackward, Align(a), count) \in HexBackwardOver
<1> DEFINE from == Start(Align(a), count)
<1>1. MaxAddr \in Nat /\ a \in Nat /\ a <= MaxAddr /\ Row \in Nat \ {0}
  BY ViewAssumption DEF Address
<1>2. Align(a) \in Int /\ Align(a) <= MaxAddr
  BY <1>1, AlignIs
<1>3. from \in Listing /\ from.cur <= MaxAddr
  BY <1>2, StartTyped DEF Start
<1>4. \A s \in Listing : s \in HexBackwardOver => HexBackward[s] = s
  BY DEF HexBackwardOver, HexBackward
<1>5. \A s \in Listing : s \notin HexBackwardOver =>
        HexBackward[s] \in Listing /\ HexBackward[s].cur < s.cur /\ s.cur >= 0
  BY HexBackwardStep
<1>6. \A s \in Listing : s.cur \in Int
  BY DEF Listing
<1> HIDE DEF from
<1>7. Loop(HexBackward, from)[Turns] \in HexBackwardOver
  BY <1>3, <1>4, <1>5, <1>6, LoopDescends
<1> QED
  BY <1>7, StartIs DEF from

\* The lines at a mapped address are lines.
LEMMA LinesAtTyped ==
  ASSUME Valid, NEW a \in Int, in_segment(a)
  PROVE  LinesAt(a) \in Seq(Lines)
<1> DEFINE l == _emit_line(a)
           h == Line(a, "header", 1)
           one == <<l>>
           two == <<h>>
<1>1. l \in Lines /\ h \in Lines
  BY LineIs DEF Line, Lines
<1>2. one \in Seq(Lines) /\ two \in Seq(Lines)
  BY <1>1, OneLine
<1>3. LinesAt(a) = Header(a) \o one /\ Header(a) \in {two, << >>}
  BY DEF LinesAt, Header
<1> DEFINE head == Header(a)
<1> HIDE DEF one, two
<1>4. head \in Seq(Lines)
  BY <1>2, <1>3, NoLines
<1> HIDE DEF head
<1>5. head \o one \in Seq(Lines)
  BY <1>2, <1>4, Joined
<1> QED
  BY <1>3, <1>5 DEF head

\* Where linear_view's loops may be.
LinearForwardAt == {s \in Listing : s.cur >= 0 \/ s.cur = BADADDR}

\* The loop backward is at mapped addresses only.
LinearBackwardAt == {s \in Listing : s.cur = BADADDR \/ (s.cur >= 0 /\ in_segment(s.cur))}

\* A turn of linear_view forward goes up, or is the last.
LEMMA LinearForwardStep ==
  ASSUME Valid, NEW s \in LinearForwardAt, s \notin LinearForwardOver
  PROVE  /\ LinearForward[s] \in LinearForwardAt /\ s.cur <= MaxAddr
         /\ (LinearForward[s] \notin LinearForwardOver => LinearForward[s].cur > s.cur)
<1> DEFINE n == After(s.cur, _emit_line(s.cur).size)
           g == get_next_seg(s.cur)
           new == LinesAt(s.cur)
           t == LinearForward[s]
<1>1. /\ s \in Listing /\ s.cur \in Int /\ s.left \in Nat /\ s.lines \in Seq(Lines) /\ s.left # 0
      /\ s.cur >= 0 /\ s.cur # BADADDR /\ next_seg_start(s.cur) # BADADDR
  BY DEF Listing, LinearForwardAt, LinearForwardOver
<1>2. MaxAddr \in Nat /\ s.cur <= MaxAddr
  BY <1>1, NextMapped, ViewAssumption DEF Address
<1>3. t = IF in_segment(s.cur)
          THEN [cur |-> n, left |-> s.left - 1, lines |-> s.lines \o new]
          ELSE [s EXCEPT !.cur = g]
  BY <1>1 DEF LinearForward
<1>4. in_segment(s.cur) => n = BADADDR \/ (n \in Nat /\ s.cur < n)
  BY <1>1, AfterIs
<1>5. ~in_segment(s.cur) => g \in Nat /\ s.cur < g
  BY <1>1, <1>2, NextSegment DEF next_seg_start, Address
<1>6. in_segment(s.cur) => new \in Seq(Lines)
  BY <1>1, LinesAtTyped
<1> HIDE DEF n, g, new, t
<1>7. in_segment(s.cur) => s.lines \o new \in Seq(Lines)
  BY <1>1, <1>6, Joined
<1>8. t \in Listing /\ (t.cur = BADADDR \/ (t.cur >= 0 /\ s.cur < t.cur))
  BY <1>1, <1>3, <1>4, <1>5, <1>7 DEF Listing, BADADDR
<1>9. t \notin LinearForwardOver => t.cur # BADADDR
  BY <1>8 DEF LinearForwardOver
<1> QED
  BY <1>2, <1>8, <1>9 DEF t, LinearForwardAt

\* linear_view forward.
LEMMA LinearForwardStops ==
  ASSUME Valid, NEW c \in Int, c >= 0 \/ c = BADADDR, NEW count \in Nat
  PROVE  Listed(LinearForward, c, count) \in LinearForwardAt \cap LinearForwardOver
<1> DEFINE from == Start(c, count)
           I    == LinearForwardAt
<1>1. from \in I /\ from.cur = c /\ from \in Listing
  BY StartTyped DEF Start, LinearForwardAt
<1>2. \A s \in I : s \in LinearForwardOver => LinearForward[s] = s
  BY DEF LinearForwardOver, LinearForward
<1>3. \A s \in I : s \notin LinearForwardOver =>
        /\ LinearForward[s] \in I /\ s.cur <= MaxAddr
        /\ (LinearForward[s] \notin LinearForwardOver => LinearForward[s].cur > s.cur)
  BY LinearForwardStep
<1>4. \A s \in I : s.cur \in Int
  BY DEF LinearForwardAt, Listing
<1>5. from \in LinearForwardOver \/ from.cur >= 0
  BY <1>1 DEF LinearForwardOver
<1> HIDE DEF from, I
<1>6. Loop(LinearForward, from)[Turns] \in I \cap LinearForwardOver
  BY <1>1, <1>2, <1>3, <1>4, <1>5, LoopAscends
<1> QED
  BY <1>6, StartIs DEF from, I

\* A turn of linear_view backward goes down.
LEMMA LinearBackwardStep ==
  ASSUME Valid, NEW s \in LinearBackwardAt, s \notin LinearBackwardOver
  PROVE  LinearBackward[s] \in LinearBackwardAt /\ LinearBackward[s].cur < s.cur /\ s.cur >= 0
<1> DEFINE p == _prev_head_skip_gaps(s.cur)
           new == LinesAt(s.cur)
           t == LinearBackward[s]
<1>1. /\ s \in Listing /\ s.cur \in Int /\ s.left \in Nat /\ s.lines \in Seq(Lines) /\ s.left # 0
      /\ s.cur >= 0 /\ in_segment(s.cur) /\ s.cur # BADADDR
  BY DEF Listing, LinearBackwardAt, LinearBackwardOver
<1>2. t = [cur |-> p, left |-> s.left - 1, lines |-> new \o s.lines]
  BY <1>1 DEF LinearBackward
<1>3. p = BADADDR \/ (p \in Nat /\ p < s.cur /\ in_segment(p))
  BY <1>1, BackIs
<1>4. new \in Seq(Lines)
  BY <1>1, LinesAtTyped
<1> HIDE DEF p, new, t
<1>5. new \o s.lines \in Seq(Lines)
  BY <1>1, <1>4, Joined
<1>6. t \in LinearBackwardAt /\ t.cur < s.cur
  BY <1>1, <1>2, <1>3, <1>5 DEF Listing, BADADDR, LinearBackwardAt
<1> QED
  BY <1>1, <1>6 DEF t

\* linear_view backward.
LEMMA LinearBackwardStops ==
  ASSUME Valid, NEW c \in Int, c = BADADDR \/ (c >= 0 /\ c <= MaxAddr /\ in_segment(c)),
         NEW count \in Nat
  PROVE  Listed(LinearBackward, c, count) \in LinearBackwardAt \cap LinearBackwardOver
<1> DEFINE from == Start(c, count)
           I    == LinearBackwardAt
<1>1. from \in I /\ from.cur <= MaxAddr
  BY StartTyped, ViewAssumption DEF Start, BADADDR, LinearBackwardAt
<1>2. \A s \in I : s \in LinearBackwardOver => LinearBackward[s] = s
  BY DEF LinearBackwardOver, LinearBackward
<1>3. \A s \in I : s \notin LinearBackwardOver =>
        LinearBackward[s] \in I /\ LinearBackward[s].cur < s.cur /\ s.cur >= 0
  BY LinearBackwardStep
<1>4. \A s \in I : s.cur \in Int
  BY DEF LinearBackwardAt, Listing
<1> HIDE DEF from, I
<1>5. Loop(LinearBackward, from)[Turns] \in I \cap LinearBackwardOver
  BY <1>1, <1>2, <1>3, <1>4, LoopDescends
<1> QED
  BY <1>5, StartIs DEF from, I

\* Where linear_view begins.
LEMMA LinearStarts ==
  ASSUME Valid, NEW a \in Int
  PROVE  LET n == IF is_head(a) THEN a ELSE next_head(a, MaxAddr + 1)
             p == IF is_head(a) THEN a ELSE prev_head(a, 0)
         IN /\ n \in Int /\ (n >= 0 \/ n = BADADDR)
            /\ p \in Int /\ (p = BADADDR \/ (p >= 0 /\ p <= MaxAddr /\ in_segment(p)))
<1> DEFINE n == IF is_head(a) THEN a ELSE next_head(a, MaxAddr + 1)
           p == IF is_head(a) THEN a ELSE prev_head(a, 0)
<1>1. MaxAddr \in Nat /\ MaxAddr + 1 \in Int /\ BADADDR \in Int
  BY ViewAssumption DEF BADADDR
<1>2. n = BADADDR \/ (n \in Int /\ n >= 0)
  BY <1>1, NextHead, HeadIs DEF Address
<1>3. p = BADADDR \/ (p \in Int /\ p >= 0 /\ p <= MaxAddr /\ in_segment(p))
  BY <1>1, PreviousHead, HeadIs DEF Address
<1> QED
  BY <1>1, <1>2, <1>3

\* Every loop of hex_view and linear_view is over within the turns that the model gives
\* it.
PagesEnd ==
  \A addr \in Address, count \in Nat :
    /\ Listed(HexForward, Align(addr), count) \in HexForwardOver
    /\ Listed(HexBackward, Align(addr), count) \in HexBackwardOver
    /\ Listed(LinearForward, IF is_head(addr) THEN addr ELSE next_head(addr, MaxAddr + 1), count)
         \in LinearForwardOver
    /\ Listed(LinearBackward, IF is_head(addr) THEN addr ELSE prev_head(addr, 0), count)
         \in LinearBackwardOver

\* No page keeps the worker busy for ever, whatever the database: each of the loops has
\* a variant.
THEOREM PagesEndAlways == Spec => []PagesEnd
<1>1. ASSUME PanelInv PROVE PagesEnd
  <2> SUFFICES ASSUME NEW a \in Address, NEW count \in Nat
               PROVE  /\ Listed(HexForward, Align(a), count) \in HexForwardOver
                      /\ Listed(HexBackward, Align(a), count) \in HexBackwardOver
                      /\ Listed(LinearForward,
                                IF is_head(a) THEN a ELSE next_head(a, MaxAddr + 1), count)
                           \in LinearForwardOver
                      /\ Listed(LinearBackward, IF is_head(a) THEN a ELSE prev_head(a, 0), count)
                           \in LinearBackwardOver
    BY DEF PagesEnd
  <2> DEFINE n == IF is_head(a) THEN a ELSE next_head(a, MaxAddr + 1)
             p == IF is_head(a) THEN a ELSE prev_head(a, 0)
  <2>1. Valid /\ a \in Nat /\ a \in Int
    BY <1>1, ViewAssumption DEF PanelInv, Address
  <2>2. /\ n \in Int /\ (n >= 0 \/ n = BADADDR)
        /\ p \in Int /\ (p = BADADDR \/ (p >= 0 /\ p <= MaxAddr /\ in_segment(p)))
    BY <2>1, LinearStarts
  <2> HIDE DEF n, p
  <2>3. Listed(LinearForward, n, count) \in LinearForwardOver
    BY <2>1, <2>2, LinearForwardStops
  <2>4. Listed(LinearBackward, p, count) \in LinearBackwardOver
    BY <2>1, <2>2, LinearBackwardStops
  <2>5. Listed(HexForward, Align(a), count) \in HexForwardOver
    <3>1. Align(a) \in Nat /\ Aligned(Align(a))
      BY <2>1, AlignedAddress
    <3> QED
      BY <2>1, <3>1, HexForwardEnds
  <2>6. Listed(HexBackward, Align(a), count) \in HexBackwardOver
    BY <2>1, HexBackwardStops
  <2> QED
    BY <2>3, <2>4, <2>5, <2>6 DEF n, p
<1> QED
  BY <1>1, StretchInvariant, PTL

-----------------------------------------------------------------------------
(* Types. *)

\* A turn of hex_view, in either direction, from any address.
LEMMA HexForwardTyped ==
  ASSUME Valid, NEW s \in Listing
  PROVE  HexForward[s] \in Listing
<1> DEFINE n == next_seg_start(s.cur)
           c == SkipForward(n)
           row == Line(s.cur, "row", Row)
           one == <<row>>
           t == HexForward[s]
<1>1. /\ s.cur \in Int /\ s.left \in Nat /\ s.lines \in Seq(Lines) /\ Row \in Nat \ {0}
  BY ViewAssumption DEF Listing
<1>2. \/ t = s
      \/ s.left # 0 /\ t = [cur |-> s.cur + Row, left |-> s.left - 1, lines |-> s.lines \o one]
      \/ n # BADADDR /\ t = [s EXCEPT !.cur = c]
  BY DEF HexForward
<1>3. n # BADADDR => c \in Int
  <2> SUFFICES ASSUME n # BADADDR PROVE c \in Int
    OBVIOUS
  <2>1. n \in Int
    BY <1>1, NextMapped DEF Address
  <2> HIDE DEF n
  <2> QED
    BY <2>1, AlignIs DEF SkipForward
<1>4. row \in Lines
  BY <1>1 DEF Line, Lines
<1> HIDE DEF row
<1>5. one \in Seq(Lines)
  BY <1>4, OneLine
<1> HIDE DEF one, n, c, t
<1>6. s.lines \o one \in Seq(Lines)
  BY <1>1, <1>5, Joined
<1> DEFINE v == s.lines \o one
<1> HIDE DEF v
<1>7. t \in Listing
  <2>1. CASE t = s
    BY <2>1
  <2>2. CASE s.left # 0 /\ t = [cur |-> s.cur + Row, left |-> s.left - 1, lines |-> v]
    <3>1. v \in Seq(Lines) /\ s.left - 1 \in Nat /\ s.cur + Row \in Int
      BY <1>1, <1>6, <2>2 DEF v
    <3> QED
      BY <2>2, <3>1 DEF Listing
  <2>3. CASE n # BADADDR /\ t = [s EXCEPT !.cur = c]
    BY <1>3, <2>3 DEF Listing
  <2> QED
    BY <1>2, <2>1, <2>2, <2>3 DEF v
<1> QED
  BY <1>7 DEF t

\* The lines of a page are lines.
LEMMA HexTyped ==
  ASSUME Valid, NEW a \in Int, NEW count \in Nat, NEW direction
  PROVE  hex_view(a, count, direction).lines \in Seq(Lines)
<1> DEFINE from == Start(Align(a), count)
<1>1. from \in Listing
  BY AlignIs, StartTyped
<1> HIDE DEF from
<1>2. Loop(HexForward, from)[Turns] \in Listing
  <2>1. \A s \in Listing : HexForward[s] \in Listing
    BY HexForwardTyped
  <2> QED
    BY <1>1, <2>1, LoopInvariant, TurnsIs
<1>3. Loop(HexBackward, from)[Turns] \in Listing
  <2>1. \A s \in Listing : HexBackward[s] \in Listing
    <3> SUFFICES ASSUME NEW s \in Listing PROVE HexBackward[s] \in Listing
      OBVIOUS
    <3>1. CASE s \in HexBackwardOver
      BY <3>1 DEF HexBackwardOver, HexBackward
    <3>2. CASE s \notin HexBackwardOver
      BY <3>2, HexBackwardStep
    <3> QED
      BY <3>1, <3>2
  <2> QED
    BY <1>1, <2>1, LoopInvariant, TurnsIs
<1>4. /\ Listed(HexForward, Align(a), count) \in Listing
      /\ Listed(HexBackward, Align(a), count) \in Listing
  BY <1>2, <1>3, StartIs DEF from
<1>5. \A s \in Listing : s.lines \in Seq(Lines)
  BY DEF Listing
<1> QED
  BY <1>4, <1>5 DEF hex_view

\* The same of linear_view.
LEMMA LinearTyped ==
  ASSUME Valid, NEW a \in Int, NEW count \in Nat, NEW direction
  PROVE  linear_view(a, count, direction).lines \in Seq(Lines)
<1> DEFINE n == IF is_head(a) THEN a ELSE next_head(a, MaxAddr + 1)
           p == IF is_head(a) THEN a ELSE prev_head(a, 0)
<1>1. /\ n \in Int /\ (n >= 0 \/ n = BADADDR)
      /\ p \in Int /\ (p = BADADDR \/ (p >= 0 /\ p <= MaxAddr /\ in_segment(p)))
  BY LinearStarts
<1>2. linear_view(a, count, direction).lines
        \in {Listed(LinearForward, n, count).lines, Listed(LinearBackward, p, count).lines}
  BY DEF linear_view
<1> HIDE DEF n, p
<1>3. /\ Listed(LinearForward, n, count) \in LinearForwardAt
      /\ Listed(LinearBackward, p, count) \in LinearBackwardAt
  BY <1>1, LinearForwardStops, LinearBackwardStops
<1>4. \A s \in LinearForwardAt \cup LinearBackwardAt : s.lines \in Seq(Lines)
  BY DEF LinearForwardAt, LinearBackwardAt, Listing
<1> QED
  BY <1>2, <1>3, <1>4

\* And of either.
LEMMA PageTyped ==
  ASSUME Valid, NEW a \in Int, NEW count \in Nat, NEW direction
  PROVE  /\ Page(a, count, direction).lines \in Seq(Lines)
         /\ Page(a, count, direction).has_more \in BOOLEAN
BY HexTyped, LinearTyped, HasMoreIs DEF Page

\* What the filter of the panel keeps are lines.
LEMMA FreshTyped ==
  ASSUME NEW page, NEW old \in Seq(Lines), page.lines \in Seq(Lines)
  PROVE  Fresh(page, old) \in Seq(Lines)
<1> DEFINE p == page.lines
           Old(l) == \E i \in 1..Len(old) : old[i].addr = l.addr
           filter ==
             [s \in [next : Nat, kept : Seq(Lines)] |->
                LET l == page.lines[s.next] IN
                [next |-> s.next + 1,
                 kept |-> IF \E i \in 1..Len(old) : old[i].addr = l.addr THEN s.kept
                          ELSE s.kept \o <<l>>]]
           from == [next |-> 1, kept |-> << >>]
           at   == Loop(filter, from)
           Good(n, s) == s \in [next : Nat, kept : Seq(Lines)] /\ s.next = n + 1
           T == {n \in Nat : n <= Len(p) => Good(n, at[n])}
<1>1. Fresh(page, old) = at[Len(p)].kept
  BY DEF Fresh
<1>2. Len(p) \in Nat /\ \A i \in 1..Len(p) : p[i] \in Lines
  BY LinesTyped
<1>3. \A s \in [next : Nat, kept : Seq(Lines)] :
        filter[s] = [next |-> s.next + 1,
                     kept |-> IF Old(p[s.next]) THEN s.kept ELSE s.kept \o <<p[s.next]>>]
  OBVIOUS
<1> HIDE DEF filter, from
<1>4. at[0] = from /\ \A n \in Nat : at[n + 1] = filter[at[n]]
  BY LoopTurns
<1> HIDE DEF at, p, Old
<1>5. 0 \in T
  <2>1. Good(0, from)
    BY NoLines DEF from
  <2> QED
    BY <1>4, <2>1
<1>6. ASSUME NEW n \in Nat, n \in T PROVE n + 1 \in T
  <2> SUFFICES ASSUME n + 1 <= Len(p) PROVE Good(n + 1, at[n + 1])
    OBVIOUS
  <2> DEFINE s == at[n]
             l == p[n + 1]
             one == <<l>>
             u == s.kept \o one
  <2>1. s \in [next : Nat, kept : Seq(Lines)] /\ s.kept \in Seq(Lines) /\ s.next = n + 1
    BY <1>2, <1>6
  <2>2. at[n + 1] = filter[s]
    BY <1>4
  <2>3. l \in Lines
    BY <1>2
  <2>4. one \in Seq(Lines)
    BY <2>3, OneLine
  <2> HIDE DEF s
  <2>5. filter[s] = [next |-> s.next + 1, kept |-> IF Old(l) THEN s.kept ELSE u]
    BY <1>3, <2>1
  <2> HIDE DEF one
  <2>6. u \in Seq(Lines)
    BY <2>1, <2>4, Joined
  <2> HIDE DEF u, l
  <2> QED
    BY <2>1, <2>2, <2>5, <2>6
<1> HIDE DEF T
<1>7. Len(p) \in T
  BY <1>2, <1>5, <1>6, Induction
<1>8. at[Len(p)].kept \in Seq(Lines)
  BY <1>2, <1>7 DEF T
<1> QED
  BY <1>1, <1>8

\* The types hold at first.
LEMMA InitTypes == Init => TypeOK
<1> SUFFICES ASSUME Init PROVE TypeOK
  OBVIOUS
<1>1. WellFormed(segments, items, funcs)
  BY PanelAssumption DEF Init
<1>2. lines \in Seq(Lines)
  BY NoLines DEF Init
<1>3. /\ view \in {"hex", "linear"} /\ moreTop \in BOOLEAN /\ moreBottom \in BOOLEAN
      /\ loading \in BOOLEAN /\ raced \in BOOLEAN /\ calls = {} /\ made = 0
  BY DEF Init
<1>4. made \in 0..MaxCalls
  BY <1>3, PanelAssumption
<1> QED
  BY <1>1, <1>2, <1>3, <1>4 DEF TypeOK

\* A call to be made has its type.
LEMMA CallTyped ==
  ASSUME NEW k \in {"jump", "forward", "backward"}, NEW a \in Int
  PROVE  Call(k, a) \in [kind : {"jump", "forward", "backward"}, addr : Int, step : 1..2]
BY DEF Call

\* They are kept where a call is made,
LEMMA BeginTypes ==
  ASSUME TypeOK, NEW k \in {"jump", "forward", "backward"}, NEW a \in Int, Begin(Call(k, a)),
         lines' \in Seq(Lines), moreTop' \in BOOLEAN, moreBottom' \in BOOLEAN, raced' \in BOOLEAN
  PROVE  TypeOK'
<1> DEFINE c == Call(k, a)
           Typed == [kind : {"jump", "forward", "backward"}, addr : Int, step : 1..2]
<1>1. c \in Typed
  BY CallTyped
<1> HIDE DEF c, Typed
<1>2. made < MaxCalls /\ made' = made + 1 /\ calls' = calls \cup {c} /\ loading' = TRUE
      /\ segments' = segments /\ items' = items /\ funcs' = funcs /\ view' = view
  BY DEF Begin, image, c
<1>3. calls' \subseteq Typed /\ made' \in 0..MaxCalls
  BY <1>1, <1>2, PanelAssumption DEF TypeOK, Typed
<1>4. WellFormed(segments, items, funcs)' /\ view' \in {"hex", "linear"}
  BY <1>2 DEF TypeOK, WellFormed
<1> QED
  BY <1>2, <1>3, <1>4 DEF TypeOK, Typed

\* by a jump,
LEMMA JumpTypes ==
  ASSUME TypeOK, NEW a \in Int, jumpTo(a)
  PROVE  TypeOK'
<1>1. /\ Begin(Call("jump", a)) /\ lines' \in Seq(Lines)
      /\ moreTop' \in BOOLEAN /\ moreBottom' \in BOOLEAN /\ raced' \in BOOLEAN
  BY NoLines DEF jumpTo, TypeOK
<1> QED
  BY <1>1, BeginTypes

\* by a scroll,
LEMMA ScrollTypes ==
  ASSUME TypeOK, NEW k \in {"forward", "backward"}, NEW a \in Int, Scroll(k, a)
  PROVE  TypeOK'
<1>1. /\ Begin(Call(k, a)) /\ lines' \in Seq(Lines)
      /\ moreTop' \in BOOLEAN /\ moreBottom' \in BOOLEAN /\ raced' \in BOOLEAN
  BY DEF Scroll, shown, TypeOK
<1> QED
  BY <1>1, BeginTypes

\* and where a call ends.
LEMMA EndsTypes ==
  ASSUME TypeOK, NEW c \in calls, Ends(c)
  PROVE  TypeOK'
<1>1. Valid /\ c.addr \in Int /\ lines \in Seq(Lines)
  BY DEF Valid, TypeOK
<1>2. Chunk \in Nat /\ Chunk \div 2 \in Nat
  BY PanelAssumption
<1> DEFINE half == Chunk \div 2
           P(n, d) == Page(c.addr, n, d)
<1> HIDE DEF half
<1>3. \A d : /\ P(Chunk, d).lines \in Seq(Lines) /\ P(Chunk, d).has_more \in BOOLEAN
             /\ P(half, d).lines \in Seq(Lines) /\ P(half, d).has_more \in BOOLEAN
  BY <1>1, <1>2, PageTyped DEF half
<1> HIDE DEF P
<1>4. \A d : Fresh(P(Chunk, d), lines) \in Seq(Lines)
  BY <1>1, <1>3, FreshTyped
<1>5. lines' \in Seq(Lines) /\ moreTop' \in BOOLEAN /\ moreBottom' \in BOOLEAN
  <2>1. CASE ForwardArrives(c)
    <3> DEFINE f == Fresh(P(Chunk, "forward"), lines)
    <3>1. f \in Seq(Lines)
      BY <1>4
    <3>2. /\ lines' = lines \o f /\ moreBottom' = P(Chunk, "forward").has_more
          /\ moreTop' = moreTop
      BY <2>1 DEF ForwardArrives, P
    <3> HIDE DEF f
    <3>3. lines \o f \in Seq(Lines)
      BY <1>1, <3>1, Joined
    <3> QED
      BY <1>3, <3>2, <3>3 DEF TypeOK
  <2>2. CASE BackwardArrives(c)
    <3> DEFINE f == Fresh(P(Chunk, "backward"), lines)
    <3>1. f \in Seq(Lines)
      BY <1>4
    <3>2. /\ lines' = f \o lines /\ moreTop' = P(Chunk, "backward").has_more
          /\ moreBottom' = moreBottom
      BY <2>2 DEF BackwardArrives, P
    <3> HIDE DEF f
    <3>3. f \o lines \in Seq(Lines)
      BY <1>1, <3>1, Joined
    <3> QED
      BY <1>3, <3>2, <3>3 DEF TypeOK
  <2>3. CASE JumpArrives(c)
    <3> DEFINE g == P(Chunk, "forward").lines
               b == P(half, "backward")
               f == Fresh(b, g)
    <3>1. g \in Seq(Lines) /\ b.lines \in Seq(Lines) /\ b.has_more \in BOOLEAN
      BY <1>3
    <3>2. lines' = f \o g /\ moreTop' = b.has_more /\ moreBottom' = P(Chunk, "forward").has_more
      BY <2>3 DEF JumpArrives, P, half
    <3> HIDE DEF g, b
    <3>3. f \in Seq(Lines)
      BY <3>1, FreshTyped
    <3> HIDE DEF f
    <3>4. f \o g \in Seq(Lines)
      BY <3>1, <3>3, Joined
    <3> QED
      BY <1>3, <3>1, <3>2, <3>4 DEF TypeOK
  <2>4. CASE UNCHANGED shown
    BY <2>4 DEF shown, TypeOK
  <2> QED
    BY <2>1, <2>2, <2>3, <2>4 DEF Ends
<1>6. /\ calls' \subseteq calls /\ loading' = FALSE /\ made' = made /\ raced' = raced
      /\ segments' = segments /\ items' = items /\ funcs' = funcs /\ view' = view
  BY DEF Ends, image
<1>7. WellFormed(segments, items, funcs)'
  BY <1>6 DEF TypeOK, WellFormed
<1> QED
  BY <1>5, <1>6, <1>7 DEF TypeOK

\* The variables keep their types, whatever the database and the pages.
THEOREM TypeCorrect == Spec => []TypeOK
<1>1. ASSUME TypeOK, [Next]_vars PROVE TypeOK'
  <2>1. CASE Jump
    <3>1. PICK a \in Entered : jumpTo(a)
      BY <2>1 DEF Jump
    <3>2. a \in Int
      BY PanelAssumption, ViewAssumption DEF Address
    <3> QED
      BY <1>1, <3>1, <3>2, JumpTypes
  <2>2. CASE ScrollDown
    <3> DEFINE a == bottom.addr + bottom.size
    <3>1. a \in Int
      BY <1>1, <2>2, LinesTyped DEF TypeOK, ScrollDown, bottom
    <3>2. Scroll("forward", a)
      BY <2>2 DEF ScrollDown
    <3> HIDE DEF a
    <3> QED
      BY <1>1, <3>1, <3>2, ScrollTypes
  <2>3. CASE ScrollUp
    <3> DEFINE a == top.addr
    <3>1. a \in Int
      BY <1>1, <2>3, LinesTyped DEF TypeOK, ScrollUp, top
    <3>2. Scroll("backward", a)
      BY <2>3 DEF ScrollUp
    <3> HIDE DEF a
    <3> QED
      BY <1>1, <3>1, <3>2, ScrollTypes
  <2>4. CASE Collect
    <3> DEFINE i == Len(lines) \div 2 + 1
               a == lines[i].addr
    <3>1. Len(lines) \in Nat /\ Len(lines) > 0 /\ lines \in Seq(Lines)
      BY <1>1, <2>4, LinesTyped, PanelAssumption DEF TypeOK, Collect
    <3>2. i \in 1..Len(lines)
      <4> DEFINE n == Len(lines)
      <4> HIDE DEF n
      <4>1. n \in Nat /\ n > 0 => n \div 2 + 1 \in 1..n
        OBVIOUS
      <4> QED
        BY <3>1, <4>1 DEF n
    <3> HIDE DEF i
    <3>3. a \in Int
      BY <3>1, <3>2, LinesTyped
    <3>4. jumpTo(a)
      BY <2>4 DEF Collect, i
    <3> HIDE DEF a
    <3> QED
      BY <1>1, <3>3, <3>4, JumpTypes
  <2>5. CASE \E c \in calls : JumpHalfway(c)
    <3>1. PICK c \in calls : JumpHalfway(c)
      BY <2>5
    <3> DEFINE d == [c EXCEPT !.step = 2]
               Typed == [kind : {"jump", "forward", "backward"}, addr : Int, step : 1..2]
    <3>2. c \in Typed /\ d \in Typed /\ calls \subseteq Typed
      BY <1>1 DEF TypeOK
    <3>3. calls' = (calls \ {c}) \cup {d}
      BY <3>1 DEF JumpHalfway
    <3> HIDE DEF d, Typed
    <3>4. calls' \subseteq Typed
      BY <3>2, <3>3
    <3>5. /\ lines' = lines /\ moreTop' = moreTop /\ moreBottom' = moreBottom
          /\ loading' = loading /\ made' = made /\ raced' = raced
          /\ segments' = segments /\ items' = items /\ funcs' = funcs /\ view' = view
      BY <3>1 DEF JumpHalfway, image, shown
    <3> QED
      BY <1>1, <3>4, <3>5 DEF TypeOK, WellFormed, Typed
  <2>6. CASE \E c \in calls : Ends(c)
    BY <1>1, <2>6, EndsTypes
  <2>7. CASE UNCHANGED vars
    BY <1>1, <2>7 DEF vars, image, shown, TypeOK, WellFormed
  <2> QED
    BY <1>1, <2>1, <2>2, <2>3, <2>4, <2>5, <2>6, <2>7 DEF Next
<1> QED
  BY <1>1, InitTypes, PTL DEF Spec
================================================================================
