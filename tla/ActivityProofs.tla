---------------------------- MODULE ActivityProofs ----------------------------
(***************************************************************************)
(* Proofs about Activity, for any calls, ids, browsers and limits: types,  *)
(* that the event of a call ends with the call, and that a browser shows   *)
(* the events as they are.                                                 *)
(***************************************************************************)
EXTENDS Activity, SequenceTheorems, TLAPS

-----------------------------------------------------------------------------
(* The calls and their events, as long as no two calls get mixed up. *)

\* The id of the last tool call in a body.
Last(c) == ToolCalls[c][Len(ToolCalls[c])]

\* The number of the event that the end of a call will look for, or 0.
Awaited(c) == IF rpc[c] = None THEN 0 ELSE pending[rpc[c]]

\* A POST that has begun has left its capture function, or another one has.
Captured == \A c \in Call : stage[c] = "started" => capture # None

\* Before its body is read, a call has no id and no event.
Unread ==
  \A c \in Call : stage[c] \in {"none", "started"} =>
    rpc[c] = None /\ \A n \in 1..Len(log) : log[n].of # c

\* A call's id is that of the last tool call in its body.
OwnId == \A c \in Call : rpc[c] # None => ToolCalls[c] # << >> /\ rpc[c] = Last(c)

\* Until its answer is over, the call's last event is the one that its id finds.
Found ==
  \A c \in Call : stage[c] \in {"received", "answering"} /\ ToolCalls[c] # << >> =>
    /\ rpc[c] = Last(c) /\ Awaited(c) > 0 /\ log[Awaited(c)].of = c
    /\ Len(ToolCalls[c]) = 1 => \A n \in 1..Len(log) : log[n].of = c => n = Awaited(c)

\* What is pending is an event with that id, not yet ended.
PendingEvents ==
  \A i \in RpcId : pending[i] > 0 => log[pending[i]].id = i /\ log[pending[i]].status = "pending"

\* An event has ended if its call is done, and not before; of a batch, the last has.
Ends ==
  \A n \in 1..Len(log) : LET c == log[n].of IN
    /\ log[n].status # "pending" => stage[c] = "done"
    /\ stage[c] = "done" /\ Len(ToolCalls[c]) = 1 => log[n].status # "pending"

\* All that, as long as no two calls get mixed up.
Apart == Unread /\ OwnId /\ Found /\ PendingEvents /\ Ends

CallInv == Captured /\ (~mixed => Apart)

-----------------------------------------------------------------------------
(* Sequences of notices, on their way to a browser or shown by it. *)

Elements(s) == {s[i] : i \in 1..Len(s)}
Events(s)   == {s[i].event : i \in 1..Len(s)}

\* What addEvent makes of what is shown.
Rest(s) == IF Len(s) < KeepLast THEN s ELSE Tail(s)

Added(s, n) ==
  IF \E i \in 1..Len(s) : s[i].event = n.event
  THEN [i \in 1..Len(s) |-> IF s[i].event = n.event THEN n ELSE s[i]]
  ELSE Append(Rest(s), n)

\* No event is shown twice.
Distinct(s) == \A i, j \in 1..Len(s) : s[i].event = s[j].event => i = j

\* The last notice of each event has its status in the log lg.
Current(l, lg) ==
  \A i \in 1..Len(l) :
    (\A j \in (i + 1)..Len(l) : l[j].event # l[i].event) => l[i].status = lg[l[i].event].status

\* What holds of a connected browser: h is left of its history, the broadcasts l are
\* on their way, it shows s, and knew m events when it connected.  Every event
\* recorded since is in s or in l, or s is full; and what is in s or h has its status,
\* unless a broadcast of it is in l or it is one of o, which a broadcast overtook.
Fits(h, l, s, o, m, lg) ==
  /\ m <= Len(lg) /\ Events(h) \subseteq 1..m
  /\ Events(l) \subseteq 1..Len(lg) /\ Events(s) \subseteq 1..Len(lg)
  /\ Distinct(s) /\ Len(s) <= KeepLast
  /\ \A n \in (m + 1)..Len(lg) : n \in Events(l) \cup Events(s) \/ Len(s) = KeepLast
  /\ Current(l, lg)
  /\ \A x \in Elements(h) \cup Elements(s) :
       x.event \notin Events(l) \cup o => x.status = lg[x.event].status

\* A function on 1..k is a sequence of length k.
LEMMA FunctionIsSeq ==
  ASSUME NEW S, NEW k \in Nat, NEW f \in [1..k -> S]
  PROVE  f \in Seq(S) /\ Len(f) = k
<1>1. f \in Seq(S)
  OBVIOUS
<1>2. DOMAIN f = 1..Len(f) /\ Len(f) \in Nat
  BY <1>1, LenProperties
<1>3. 1..k = 1..Len(f)
  BY <1>2
<1>4. QED
  BY <1>1, <1>2, <1>3

\* A sequence is its head and its tail.
LEMMA HeadTail ==
  ASSUME NEW s \in Seq(Notice), s # << >>
  PROVE  /\ Head(s) \in Notice /\ Tail(s) \in Seq(Notice) /\ Len(Tail(s)) = Len(s) - 1
         /\ Len(s) \in Nat /\ Len(s) > 0 /\ Head(s) = s[1]
         /\ \A i \in 1..Len(Tail(s)) : i + 1 \in 1..Len(s) /\ Tail(s)[i] = s[i + 1]
         /\ Elements(s) = {Head(s)} \cup Elements(Tail(s))
         /\ Events(s) = {Head(s).event} \cup Events(Tail(s))
<1>1. /\ Head(s) \in Notice /\ Tail(s) \in Seq(Notice) /\ Len(Tail(s)) = Len(s) - 1
      /\ Len(s) \in Nat /\ Len(s) > 0 /\ Head(s) = s[1]
      /\ \A i \in 1..Len(Tail(s)) : Tail(s)[i] = s[i + 1]
  BY HeadTailProperties, EmptySeq, LenProperties
<1>2. \A i \in 1..Len(Tail(s)) : i + 1 \in 1..Len(s)
  BY <1>1
<1>3. \A i \in 1..Len(s) : i = 1 \/ (i - 1 \in 1..Len(Tail(s)) /\ s[i] = Tail(s)[i - 1])
  BY <1>1
<1>4. 1 \in 1..Len(s)
  BY <1>1
<1>5. Elements(s) = {Head(s)} \cup Elements(Tail(s))
  BY <1>1, <1>2, <1>3, <1>4 DEF Elements
<1>6. Events(s) = {Head(s).event} \cup Events(Tail(s))
  BY <1>1, <1>2, <1>3, <1>4 DEF Events
<1>7. QED
  BY <1>1, <1>2, <1>5, <1>6

\* Nothing is in the empty sequence.
LEMMA NoNotices == Elements(<< >>) = {} /\ Events(<< >>) = {} /\ Len(<< >>) = 0
BY EmptySeq DEF Elements, Events

\* The events of a sequence are those of its elements.
LEMMA OfElements ==
  ASSUME NEW s
  PROVE  /\ \A x \in Elements(s) : x.event \in Events(s)
         /\ \A e \in Events(s) : \E x \in Elements(s) : x.event = e
BY DEF Elements, Events

\* What is shown after addEvent: the notice, and what there was of other events, all of
\* it or as much as there is room for.
LEMMA RestShows ==
  ASSUME NEW s \in Seq(Notice), Len(s) <= KeepLast
  PROVE  /\ Rest(s) \in Seq(Notice) /\ Len(Rest(s)) < KeepLast
         /\ Elements(Rest(s)) \subseteq Elements(s) /\ Events(Rest(s)) \subseteq Events(s)
         /\ Distinct(s) => Distinct(Rest(s))
         /\ Rest(s) = s \/ (Len(s) = KeepLast /\ Len(Rest(s)) + 1 = KeepLast)
<1>1. Len(s) \in Nat /\ KeepLast \in Nat /\ KeepLast > 0
  BY LenProperties, LimitAssumption
<1>2. CASE Len(s) < KeepLast
  BY <1>1, <1>2 DEF Rest
<1>3. CASE ~(Len(s) < KeepLast)
  <2>1. Len(s) = KeepLast /\ s # << >> /\ Rest(s) = Tail(s)
    BY <1>1, <1>3, EmptySeq DEF Rest
  <2>2. /\ Tail(s) \in Seq(Notice) /\ Len(Tail(s)) = Len(s) - 1
        /\ \A i \in 1..Len(Tail(s)) : i + 1 \in 1..Len(s) /\ Tail(s)[i] = s[i + 1]
        /\ Elements(s) = {Head(s)} \cup Elements(Tail(s))
        /\ Events(s) = {Head(s).event} \cup Events(Tail(s))
    BY <2>1, HeadTail
  <2>3. Distinct(s) => Distinct(Tail(s))
    <3> SUFFICES ASSUME Distinct(s), NEW i \in 1..Len(Tail(s)), NEW j \in 1..Len(Tail(s)),
                        Tail(s)[i].event = Tail(s)[j].event
                 PROVE  i = j
      BY DEF Distinct
    <3>1. i + 1 = j + 1
      BY <2>2 DEF Distinct
    <3> QED
      BY <3>1
  <2> QED
    BY <1>1, <2>1, <2>2, <2>3
<1> QED
  BY <1>2, <1>3

LEMMA AddedShows ==
  ASSUME NEW s \in Seq(Notice), NEW n \in Notice, Len(s) <= KeepLast
  PROVE  /\ Added(s, n) \in Seq(Notice) /\ Len(Added(s, n)) <= KeepLast
         /\ Events(Added(s, n)) \subseteq Events(s) \cup {n.event} /\ n.event \in Events(Added(s, n))
         /\ Events(s) \subseteq Events(Added(s, n)) \/ Len(Added(s, n)) = KeepLast
         /\ Len(s) = KeepLast => Len(Added(s, n)) = KeepLast
         /\ Distinct(s) => Distinct(Added(s, n))
         /\ \A x \in Elements(Added(s, n)) : x = n \/ (x \in Elements(s) /\ x.event # n.event)
<1> DEFINE t == Added(s, n)
<1>1. /\ Len(s) \in Nat /\ KeepLast \in Nat /\ \A i \in 1..Len(s) : s[i] \in Notice
  BY LenProperties, ElementOfSeq, LimitAssumption
<1>2. CASE \E i \in 1..Len(s) : s[i].event = n.event
  <2>1. t = [i \in 1..Len(s) |-> IF s[i].event = n.event THEN n ELSE s[i]]
    BY <1>2 DEF Added
  <2>2. t \in Seq(Notice) /\ Len(t) = Len(s)
    <3>1. t \in [1..Len(s) -> Notice]
      BY <1>1, <2>1
    <3>2. QED
      BY <1>1, <3>1, FunctionIsSeq
  <2>3. \A i \in 1..Len(s) : t[i] = IF s[i].event = n.event THEN n ELSE s[i]
    BY <2>1
  <2> HIDE DEF t
  <2>4. \A i \in 1..Len(s) : t[i].event = s[i].event
    BY <2>3
  <2>5. Events(t) = Events(s) \cup {n.event}
    BY <1>2, <2>2, <2>4 DEF Events
  <2>6. Distinct(s) => Distinct(t)
    BY <2>2, <2>4 DEF Distinct
  <2>7. \A x \in Elements(t) : x = n \/ (x \in Elements(s) /\ x.event # n.event)
    BY <2>2, <2>3 DEF Elements
  <2>8. QED
    BY <2>2, <2>5, <2>6, <2>7 DEF t
<1>3. CASE ~\E i \in 1..Len(s) : s[i].event = n.event
  <2> DEFINE r == Rest(s)
  <2>1. t = Append(r, n)
    BY <1>3 DEF Added
  <2>2. /\ r \in Seq(Notice) /\ Len(r) < KeepLast
        /\ Elements(r) \subseteq Elements(s) /\ Events(r) \subseteq Events(s)
        /\ Distinct(s) => Distinct(r)
        /\ r = s \/ (Len(s) = KeepLast /\ Len(r) + 1 = KeepLast)
    BY RestShows
  <2> HIDE DEF r
  <2>3. /\ t \in Seq(Notice) /\ Len(t) = Len(r) + 1 /\ t[Len(r) + 1] = n
        /\ \A i \in 1..Len(r) : t[i] = r[i]
    BY <2>1, <2>2, AppendProperties
  <2> HIDE DEF t
  <2>4. /\ Len(r) \in Nat
        /\ \A i \in 1..Len(t) : i = Len(r) + 1 \/ i \in 1..Len(r)
        /\ \A i \in 1..Len(r) : i \in 1..Len(t)
        /\ Len(r) + 1 \in 1..Len(t)
    BY <2>2, <2>3, LenProperties
  <2>5. \A i \in 1..Len(r) : r[i].event # n.event /\ r[i] \in Elements(r)
    BY <1>3, <2>2 DEF Events, Elements
  <2>6. Events(t) = Events(r) \cup {n.event}
    BY <2>3, <2>4 DEF Events
  <2>7. Distinct(s) => Distinct(t)
    BY <2>2, <2>3, <2>4, <2>5 DEF Distinct
  <2>8. \A x \in Elements(t) : x = n \/ (x \in Elements(s) /\ x.event # n.event)
    <3>1. \A i \in 1..Len(t) : t[i] = n \/ (t[i] \in Elements(r) /\ t[i].event # n.event)
      BY <2>3, <2>4, <2>5
    <3> QED
      BY <2>2, <3>1 DEF Elements
  <2>9. /\ Len(t) <= KeepLast /\ (Len(s) = KeepLast => Len(t) = KeepLast)
        /\ r = s \/ Len(t) = KeepLast
    BY <1>1, <2>2, <2>3, <2>4
  <2>10. QED
    BY <2>2, <2>3, <2>6, <2>7, <2>8, <2>9 DEF t
<1>4. QED
  BY <1>2, <1>3

LEMMA AddedTyped ==
  ASSUME NEW s \in Seq(Notice), NEW n \in Notice
  PROVE  Added(s, n) \in Seq(Notice)
<1>1. Len(s) \in Nat /\ KeepLast > 0 /\ \A i \in 1..Len(s) : s[i] \in Notice
  BY LenProperties, ElementOfSeq, LimitAssumption
<1>2. CASE \E i \in 1..Len(s) : s[i].event = n.event
  <2>1. [i \in 1..Len(s) |-> IF s[i].event = n.event THEN n ELSE s[i]] \in [1..Len(s) -> Notice]
    BY <1>1
  <2> QED
    BY <1>1, <1>2, <2>1, FunctionIsSeq DEF Added
<1>3. CASE ~\E i \in 1..Len(s) : s[i].event = n.event
  <2>1. Rest(s) \in Seq(Notice)
    <3>1. CASE Len(s) < KeepLast
      BY <3>1 DEF Rest
    <3>2. CASE ~(Len(s) < KeepLast)
      <4>1. s # << >>
        BY <1>1, <3>2, EmptySeq, LimitAssumption
      <4> QED
        BY <3>2, <4>1, HeadTail DEF Rest
    <3> QED
      BY <3>1, <3>2
  <2> QED
    BY <1>3, <2>1, AppendProperties DEF Added
<1> QED
  BY <1>2, <1>3

\* Two sequences, one after the other.
LEMMA Joined ==
  ASSUME NEW s \in Seq(Notice), NEW t \in Seq(Notice)
  PROVE  /\ s \o t \in Seq(Notice) /\ Len(s \o t) = Len(s) + Len(t)
         /\ Len(s) \in Nat /\ Len(t) \in Nat
         /\ \A i \in 1..Len(s) : i \in 1..Len(s \o t) /\ (s \o t)[i] = s[i]
         /\ \A i \in 1..Len(t) : Len(s) + i \in 1..Len(s \o t) /\ (s \o t)[Len(s) + i] = t[i]
         /\ \A i \in 1..Len(s \o t) : i \in 1..Len(s) \/ i - Len(s) \in 1..Len(t)
         /\ Events(s \o t) = Events(s) \cup Events(t)
<1>1. Len(s) \in Nat /\ Len(t) \in Nat
  BY LenProperties
<1>2. /\ s \o t \in Seq(Notice) /\ Len(s \o t) = Len(s) + Len(t)
      /\ \A i \in 1..Len(s) + Len(t) : (s \o t)[i] = IF i <= Len(s) THEN s[i] ELSE t[i - Len(s)]
  BY ConcatProperties
<1>3. \A i \in 1..Len(s) : i \in 1..Len(s \o t) /\ (s \o t)[i] = s[i]
  BY <1>1, <1>2
<1>4. \A i \in 1..Len(t) : Len(s) + i \in 1..Len(s \o t) /\ (s \o t)[Len(s) + i] = t[i]
  <2> SUFFICES ASSUME NEW i \in 1..Len(t)
               PROVE  Len(s) + i \in 1..Len(s \o t) /\ (s \o t)[Len(s) + i] = t[i]
    OBVIOUS
  <2>1. Len(s) + i \in 1..(Len(s) + Len(t)) /\ ~(Len(s) + i <= Len(s)) /\ Len(s) + i - Len(s) = i
    BY <1>1
  <2>2. QED
    BY <1>2, <2>1
<1>5. \A i \in 1..Len(s \o t) : i \in 1..Len(s) \/ i - Len(s) \in 1..Len(t)
  BY <1>1, <1>2
<1>6. \A i \in 1..Len(s \o t) :
        (s \o t)[i].event \in Events(s) \cup Events(t)
  <2> SUFFICES ASSUME NEW i \in 1..Len(s \o t)
               PROVE  (s \o t)[i].event \in Events(s) \cup Events(t)
    OBVIOUS
  <2>1. CASE i \in 1..Len(s)
    BY <1>3, <2>1 DEF Events
  <2>2. CASE i - Len(s) \in 1..Len(t)
    <3>1. i = Len(s) + (i - Len(s))
      BY <1>1, <1>2
    <3>2. (s \o t)[i] = t[i - Len(s)]
      BY <1>4, <2>2, <3>1
    <3>3. QED
      BY <2>2, <3>2 DEF Events
  <2>3. QED
    BY <1>5, <2>1, <2>2
<1>7. Events(s) \cup Events(t) \subseteq Events(s \o t)
  BY <1>3, <1>4 DEF Events
<1>8. Events(s \o t) \subseteq Events(s) \cup Events(t)
  BY <1>6 DEF Events
<1>9. QED
  BY <1>1, <1>2, <1>3, <1>4, <1>5, <1>7, <1>8

-----------------------------------------------------------------------------
(* What each step does to what a browser has and is sent. *)

\* get_history: the last k events.
LEMMA FitsConnect ==
  ASSUME NEW lg \in Seq(Event), NEW o, NEW k \in Nat, k <= Len(lg), NEW h,
         h = [i \in 1..k |-> [event |-> Len(lg) - k + i, status |-> lg[Len(lg) - k + i].status]]
  PROVE  h \in Seq(Notice) /\ Fits(h, << >>, << >>, o, Len(lg), lg)
<1>1. Len(lg) \in Nat
  BY LenProperties
<1>2. \A i \in 1..k : Len(lg) - k + i \in 1..Len(lg)
  BY <1>1
<1>3. \A i \in 1..k : h[i].event = Len(lg) - k + i /\ h[i].status = lg[h[i].event].status
  OBVIOUS
<1>4. h \in Seq(Notice) /\ Len(h) = k
  <2>1. \A i \in 1..k : lg[Len(lg) - k + i].status \in Status
    <3> SUFFICES ASSUME NEW i \in 1..k PROVE lg[Len(lg) - k + i].status \in Status
      OBVIOUS
    <3>1. lg[Len(lg) - k + i] \in Event
      BY <1>2, ElementOfSeq
    <3>2. QED
      BY <3>1 DEF Event
  <2>2. \A i \in 1..k :
          [event |-> Len(lg) - k + i, status |-> lg[Len(lg) - k + i].status] \in Notice
    <3> SUFFICES ASSUME NEW i \in 1..k
                 PROVE  [event |-> Len(lg) - k + i, status |-> lg[Len(lg) - k + i].status]
                          \in Notice
      OBVIOUS
    <3>1. Len(lg) - k + i \in Nat
      BY <1>1
    <3>2. QED
      BY <2>1, <3>1 DEF Notice
  <2>3. h \in [1..k -> Notice]
    BY <2>2
  <2>4. QED
    BY <2>3, FunctionIsSeq
<1> HIDE DEF Event
<1>5. Events(h) \subseteq 1..Len(lg)
  BY <1>2, <1>3, <1>4 DEF Events
<1>7. Distinct(<< >>) /\ Current(<< >>, lg) /\ Len(<< >>) <= KeepLast
  BY NoNotices, LimitAssumption DEF Distinct, Current
<1>8. \A x \in Elements(h) : x.status = lg[x.event].status
  BY <1>3, <1>4 DEF Elements
<1>9. \A n \in (Len(lg) + 1)..Len(lg) : FALSE
  BY <1>1
<1>10. /\ Events(<< >>) \subseteq 1..Len(lg)
       /\ \A n \in (Len(lg) + 1)..Len(lg) :
            n \in Events(<< >>) \cup Events(<< >>) \/ Len(<< >>) = KeepLast
       /\ \A x \in Elements(h) \cup Elements(<< >>) :
            x.event \notin Events(<< >>) \cup o => x.status = lg[x.event].status
  BY <1>8, <1>9, NoNotices
<1>11. Len(lg) <= Len(lg)
  BY <1>1
<1>12. QED
  BY <1>4, <1>5, <1>7, <1>10, <1>11, Zenon DEF Fits

\* SendHistory: the next event of the history is added to what is shown; if it was
\* shown already, it takes the place of a broadcast.
LEMMA FitsHistory ==
  ASSUME NEW lg, NEW l, NEW o, NEW m \in Nat,
         NEW h \in Seq(Notice), h # << >>, NEW s \in Seq(Notice), Fits(h, l, s, o, m, lg),
         Len(lg) \in Nat
  PROVE  Fits(Tail(h), l, Added(s, Head(h)), o, m, lg)
<1> DEFINE n == Head(h)
           g == Tail(h)
           t == Added(s, n)
<1>1. n \in Notice /\ Elements(h) = {n} \cup Elements(g) /\ Events(h) = {n.event} \cup Events(g)
  BY HeadTail
<1>2. /\ Events(t) \subseteq Events(s) \cup {n.event} /\ Len(t) <= KeepLast /\ Distinct(t)
      /\ Events(s) \subseteq Events(t) \/ Len(t) = KeepLast
      /\ Len(s) = KeepLast => Len(t) = KeepLast
      /\ \A x \in Elements(t) : x = n \/ (x \in Elements(s) /\ x.event # n.event)
  BY <1>1, AddedShows DEF Fits
<1> HIDE DEF n, g, t
<1>3. \A x \in Elements(g) \cup Elements(t) : x \in Elements(h) \cup Elements(s)
  BY <1>1, <1>2
<1>4. \A x \in Elements(g) \cup Elements(t) :
        x.event \notin Events(l) \cup o => x.status = lg[x.event].status
  BY <1>3 DEF Fits
<1>5. Events(g) \subseteq 1..m /\ Events(t) \subseteq 1..Len(lg)
  <2>1. n.event \in 1..m /\ Events(g) \subseteq 1..m /\ m <= Len(lg)
    BY <1>1 DEF Fits
  <2>2. n.event \in 1..Len(lg)
    BY <2>1
  <2>3. QED
    BY <1>2, <2>1, <2>2 DEF Fits
<1>6. \A e \in (m + 1)..Len(lg) : e \in Events(l) \cup Events(t) \/ Len(t) = KeepLast
  BY <1>2 DEF Fits
<1>7. QED
  BY <1>2, <1>4, <1>5, <1>6 DEF Fits, n, g, t

\* SendLive: so is the next broadcast; it overtakes the history of its event.
LEMMA FitsLive ==
  ASSUME NEW lg, NEW h \in Seq(Notice), NEW o, NEW m \in Nat,
         NEW l \in Seq(Notice), l # << >>, NEW s \in Seq(Notice), Fits(h, l, s, o, m, lg)
  PROVE  Fits(h, Tail(l), Added(s, Head(l)), o \cup ({Head(l).event} \cap Events(h)), m, lg)
<1> DEFINE n == Head(l)
           g == Tail(l)
           t == Added(s, n)
<1>1. /\ n \in Notice /\ g \in Seq(Notice) /\ Len(g) = Len(l) - 1 /\ Len(l) \in Nat /\ Len(l) > 0
      /\ n = l[1] /\ \A i \in 1..Len(g) : i + 1 \in 1..Len(l) /\ g[i] = l[i + 1]
      /\ Elements(l) = {n} \cup Elements(g) /\ Events(l) = {n.event} \cup Events(g)
  BY HeadTail
<1>2. /\ Events(t) \subseteq Events(s) \cup {n.event} /\ Len(t) <= KeepLast /\ Distinct(t)
      /\ n.event \in Events(t) /\ (Events(s) \subseteq Events(t) \/ Len(t) = KeepLast)
      /\ Len(s) = KeepLast => Len(t) = KeepLast
      /\ \A x \in Elements(t) : x = n \/ (x \in Elements(s) /\ x.event # n.event)
  BY <1>1, AddedShows DEF Fits
<1> HIDE DEF n, g, t
<1>3. Current(g, lg)
  <2> SUFFICES ASSUME NEW i \in 1..Len(g),
                      \A j \in (i + 1)..Len(g) : g[j].event # g[i].event
               PROVE  g[i].status = lg[g[i].event].status
    BY DEF Current
  <2>1. i + 1 \in 1..Len(l) /\ g[i] = l[i + 1]
    BY <1>1
  <2>2. ASSUME NEW j \in (i + 1 + 1)..Len(l) PROVE l[j].event # l[i + 1].event
    <3>1. j - 1 \in (i + 1)..Len(g) /\ j - 1 \in 1..Len(g) /\ j - 1 + 1 = j
      BY <1>1, <2>2
    <3>2. g[j - 1] = l[j]
      BY <1>1, <3>1
    <3>3. QED
      BY <2>1, <3>1, <3>2
  <2>3. QED
    BY <2>1, <2>2 DEF Fits, Current
<1>4. n.event \notin Events(g) => n.status = lg[n.event].status
  <2> SUFFICES ASSUME n.event \notin Events(g) PROVE n.status = lg[n.event].status
    OBVIOUS
  <2>1. ASSUME NEW j \in (1 + 1)..Len(l) PROVE l[j].event # l[1].event
    <3>1. j - 1 \in 1..Len(g) /\ j - 1 + 1 = j
      BY <1>1, <2>1
    <3>2. g[j - 1] = l[j] /\ g[j - 1].event \in Events(g)
      BY <1>1, <3>1 DEF Events
    <3>3. QED
      BY <1>1, <3>2
  <2>2. 1 \in 1..Len(l)
    BY <1>1
  <2>3. QED
    BY <1>1, <2>1, <2>2 DEF Fits, Current
<1>5. \A x \in Elements(h) \cup Elements(t) :
        x.event \notin Events(g) \cup (o \cup ({n.event} \cap Events(h)))
          => x.status = lg[x.event].status
  <2> SUFFICES ASSUME NEW x \in Elements(h) \cup Elements(t),
                      x.event \notin Events(g), x.event \notin o,
                      x.event \notin {n.event} \cap Events(h)
               PROVE  x.status = lg[x.event].status
    OBVIOUS
  <2>1. CASE x = n
    BY <1>4, <2>1
  <2>2. CASE x \in Elements(h) /\ x.event # n.event
    BY <1>1, <2>2 DEF Fits
  <2>3. CASE x \in Elements(s) /\ x.event # n.event
    BY <1>1, <2>3 DEF Fits
  <2>4. CASE x \in Elements(h) /\ x.event = n.event
    BY <2>4, OfElements
  <2>5. QED
    BY <1>2, <2>1, <2>2, <2>3, <2>4
<1>7. Events(g) \subseteq 1..Len(lg) /\ Events(t) \subseteq 1..Len(lg)
  BY <1>1, <1>2 DEF Fits
<1>8. \A e \in (m + 1)..Len(lg) : e \in Events(g) \cup Events(t) \/ Len(t) = KeepLast
  BY <1>1, <1>2 DEF Fits
<1>9. QED
  BY <1>2, <1>3, <1>5, <1>7, <1>8 DEF Fits, n, g, t

\* A broadcast t tells of every event that is new in the log, or has a new status.
Broadcasts(t, old, new) ==
  /\ Len(old) <= Len(new) /\ Events(t) \subseteq 1..Len(new)
  /\ \A n \in (Len(old) + 1)..Len(new) : n \in Events(t)
  /\ \A n \in 1..Len(old) : n \in Events(t) \/ new[n].status = old[n].status
  /\ Current(t, new)

LEMMA FitsBroadcast ==
  ASSUME NEW lg, NEW new, NEW h, NEW s, NEW o, NEW m \in Nat,
         Len(lg) \in Nat, Len(new) \in Nat,
         NEW l \in Seq(Notice), NEW t \in Seq(Notice),
         Fits(h, l, s, o, m, lg), Broadcasts(t, lg, new)
  PROVE  Fits(h, l \o t, s, o, m, new)
<1> DEFINE k == l \o t
<1>1. /\ Len(k) = Len(l) + Len(t) /\ Len(l) \in Nat /\ Len(t) \in Nat
      /\ \A i \in 1..Len(l) : i \in 1..Len(k) /\ k[i] = l[i]
      /\ \A i \in 1..Len(t) : Len(l) + i \in 1..Len(k) /\ k[Len(l) + i] = t[i]
      /\ \A i \in 1..Len(k) : i \in 1..Len(l) \/ i - Len(l) \in 1..Len(t)
      /\ Events(k) = Events(l) \cup Events(t)
  BY Joined
<1> HIDE DEF k
<1>2. /\ Len(lg) <= Len(new) /\ Events(t) \subseteq 1..Len(new)
      /\ \A n \in (Len(lg) + 1)..Len(new) : n \in Events(t)
      /\ \A n \in 1..Len(lg) : n \in Events(t) \/ new[n].status = lg[n].status
      /\ Current(t, new)
  BY DEF Broadcasts
<1>3. /\ m <= Len(lg) /\ Events(h) \subseteq 1..m
      /\ Events(l) \subseteq 1..Len(lg) /\ Events(s) \subseteq 1..Len(lg)
      /\ \A n \in (m + 1)..Len(lg) : n \in Events(l) \cup Events(s) \/ Len(s) = KeepLast
      /\ Current(l, lg)
      /\ \A x \in Elements(h) \cup Elements(s) :
           x.event \notin Events(l) \cup o => x.status = lg[x.event].status
  BY DEF Fits
<1>4. Current(k, new)
  <2> SUFFICES ASSUME NEW i \in 1..Len(k), \A j \in (i + 1)..Len(k) : k[j].event # k[i].event
               PROVE  k[i].status = new[k[i].event].status
    BY DEF Current
  <2>1. CASE i \in 1..Len(l)
    <3>1. k[i] = l[i] /\ l[i].event \in 1..Len(lg)
      BY <1>1, <1>3, <2>1 DEF Events
    <3>2. \A j \in (i + 1)..Len(l) : l[j].event # l[i].event
      BY <1>1, <2>1, <3>1
    <3>3. l[i].status = lg[l[i].event].status
      BY <1>3, <2>1, <3>2 DEF Current
    <3>4. l[i].event \notin Events(t)
      <4>1. ASSUME NEW j \in 1..Len(t) PROVE t[j].event # l[i].event
        <5>1. Len(l) + j \in (i + 1)..Len(k) /\ k[Len(l) + j] = t[j]
          BY <1>1, <2>1
        <5>2. QED
          BY <3>1, <5>1
      <4>2. QED
        BY <4>1 DEF Events
    <3>5. QED
      BY <1>2, <3>1, <3>3, <3>4
  <2>2. CASE i - Len(l) \in 1..Len(t)
    <3> DEFINE p == i - Len(l)
    <3>1. p \in 1..Len(t) /\ i = Len(l) + p
      BY <1>1, <2>2
    <3> HIDE DEF p
    <3>2. k[i] = t[p]
      BY <1>1, <3>1
    <3>3. ASSUME NEW j \in (p + 1)..Len(t) PROVE t[j].event # t[p].event
      <4>1. Len(l) + j \in (i + 1)..Len(k) /\ j \in 1..Len(t)
        BY <1>1, <3>1
      <4>2. QED
        BY <1>1, <3>2, <4>1
    <3>4. QED
      BY <1>2, <3>1, <3>2, <3>3 DEF Current
  <2>3. QED
    BY <1>1, <2>1, <2>2
<1>5. /\ m <= Len(new) /\ Events(k) \subseteq 1..Len(new) /\ Events(s) \subseteq 1..Len(new)
  BY <1>1, <1>2, <1>3
<1>6. \A n \in (m + 1)..Len(new) : n \in Events(k) \cup Events(s) \/ Len(s) = KeepLast
  <2>1. \A n \in (m + 1)..Len(new) : n \in (m + 1)..Len(lg) \/ n \in (Len(lg) + 1)..Len(new)
    BY <1>2, <1>3
  <2>2. QED
    BY <1>1, <1>2, <1>3, <2>1
<1>7. \A x \in Elements(h) \cup Elements(s) :
        x.event \notin Events(k) \cup o => x.status = new[x.event].status
  <2>1. \A x \in Elements(h) \cup Elements(s) : x.event \in 1..Len(lg)
    <3>1. \A e \in 1..m : e \in 1..Len(lg)
      BY <1>3
    <3> QED
      BY <1>3, <3>1, OfElements
  <2>2. QED
    BY <1>1, <1>2, <1>3, <2>1
<1>9. Distinct(s) /\ Len(s) <= KeepLast
  BY DEF Fits
<1>10. QED
  BY <1>3, <1>4, <1>5, <1>6, <1>7, <1>9 DEF Fits, k

-----------------------------------------------------------------------------
(* What reading a body and ending an answer do to the events. *)

\* The fields of an event.
LEMMA LogEvents ==
  TypeOK => \A n \in 1..Len(log) :
              log[n].of \in Call /\ log[n].id \in RpcId /\ log[n].status \in Status
<1> SUFFICES ASSUME TypeOK, NEW n \in 1..Len(log)
             PROVE  log[n].of \in Call /\ log[n].id \in RpcId /\ log[n].status \in Status
  OBVIOUS
<1>1. log[n] \in Event
  BY ElementOfSeq DEF TypeOK
<1>2. QED
  BY <1>1 DEF Event

\* The tool calls of a body as notices: the k-th of them is event number first + k.
NoticesFrom(first, n) == [i \in 1..n |-> [event |-> first + i, status |-> "pending"]]

LEMMA ReceiveEffect ==
  ASSUME TypeOK, NEW c \in Call, Receive(c)
  PROVE  LET ids == ToolCalls[c] IN
         /\ ids \in Seq(RpcId) /\ Len(ids) \in Nat /\ Len(log) \in Nat
         /\ log' \in Seq(Event) /\ Len(log') = Len(log) + Len(ids)
         /\ \A n \in 1..Len(log) : n \in 1..Len(log') /\ log'[n] = log[n]
         /\ \A j \in 1..Len(ids) :
              /\ Len(log) + j \in 1..Len(log')
              /\ log'[Len(log) + j].of = c /\ log'[Len(log) + j].id = ids[j]
              /\ log'[Len(log) + j].status = "pending"
         /\ \A n \in 1..Len(log') : n \in 1..Len(log) \/ n - Len(log) \in 1..Len(ids)
         /\ pending' \in [RpcId -> 0..Len(log')]
         /\ \A i \in RpcId :
              \/ \E j \in 1..Len(ids) : ids[j] = i /\ pending'[i] = Len(log) + j
              \/ (\A j \in 1..Len(ids) : ids[j] # i) /\ pending'[i] = pending[i]
         /\ NoticesFrom(Len(log), Len(ids)) \in Seq(Notice)
         /\ Len(NoticesFrom(Len(log), Len(ids))) = Len(ids)
         /\ live' = [w \in Socket |-> IF w \in subs
                       THEN live[w] \o NoticesFrom(Len(log), Len(ids)) ELSE live[w]]
<1> DEFINE ids == ToolCalls[c]
           new == [i \in 1..Len(ids) |->
                     [of |-> c, id |-> ids[i], status |-> "pending", kind |-> "read"]]
           notices == NoticesFrom(Len(log), Len(ids))
<1>1. ids \in Seq(RpcId) /\ Len(ids) \in Nat /\ Len(log) \in Nat /\ log \in Seq(Event)
      /\ \A j \in 1..Len(ids) : ids[j] \in RpcId
  BY CallAssumption, LenProperties, ElementOfSeq DEF TypeOK
<1>2. log' = log \o new
  BY DEF Receive, EventKind
<1>3. live' = [w \in Socket |-> IF w \in subs THEN live[w] \o notices ELSE live[w]]
  BY DEF Receive, Broadcast, NoticesFrom
<1>4. pending' = [i \in RpcId |-> IF \E j \in 1..Len(ids) : ids[j] = i
                                 THEN Len(log) + (CHOOSE j \in 1..Len(ids) : ids[j] = i)
                                 ELSE pending[i]]
  BY DEF Receive
<1> HIDE DEF ids
<1>5. new \in Seq(Event) /\ Len(new) = Len(ids)
  <2>1. \A j \in 1..Len(ids) :
          [of |-> c, id |-> ids[j], status |-> "pending", kind |-> "read"] \in Event
    BY <1>1 DEF Event, Status, Kind
  <2>2. new \in [1..Len(ids) -> Event]
    BY <2>1
  <2>3. QED
    BY <1>1, <2>2, FunctionIsSeq
<1>6. notices \in Seq(Notice) /\ Len(notices) = Len(ids)
  <2>1. \A j \in 1..Len(ids) : [event |-> Len(log) + j, status |-> "pending"] \in Notice
    BY <1>1 DEF Notice, Status
  <2>2. notices \in [1..Len(ids) -> Notice]
    BY <2>1 DEF NoticesFrom
  <2>3. QED
    BY <1>1, <2>2, FunctionIsSeq
<1>7. \A j \in 1..Len(ids) :
        new[j].of = c /\ new[j].id = ids[j] /\ new[j].status = "pending"
  OBVIOUS
<1> HIDE DEF new, notices
<1>8. /\ log' \in Seq(Event) /\ Len(log') = Len(log) + Len(ids)
      /\ \A i \in 1..Len(log) + Len(ids) :
           log'[i] = IF i <= Len(log) THEN log[i] ELSE new[i - Len(log)]
  <2>1. /\ log \o new \in Seq(Event) /\ Len(log \o new) = Len(log) + Len(new)
        /\ \A i \in 1..Len(log) + Len(new) :
             (log \o new)[i] = IF i <= Len(log) THEN log[i] ELSE new[i - Len(log)]
    BY <1>1, <1>5, ConcatProperties, Zenon
  <2>2. QED
    BY <1>2, <1>5, <2>1
<1>9. \A n \in 1..Len(log) : n \in 1..Len(log') /\ log'[n] = log[n]
  BY <1>1, <1>8
<1>10. \A j \in 1..Len(ids) :
         /\ Len(log) + j \in 1..Len(log')
         /\ log'[Len(log) + j].of = c /\ log'[Len(log) + j].id = ids[j]
         /\ log'[Len(log) + j].status = "pending"
  <2> SUFFICES ASSUME NEW j \in 1..Len(ids)
               PROVE  /\ Len(log) + j \in 1..Len(log')
                      /\ log'[Len(log) + j] = new[j]
    BY <1>7
  <2>1. /\ Len(log) + j \in 1..(Len(log) + Len(ids)) /\ ~(Len(log) + j <= Len(log))
        /\ Len(log) + j - Len(log) = j
    BY <1>1
  <2>2. QED
    BY <1>8, <2>1
<1>11. \A n \in 1..Len(log') : n \in 1..Len(log) \/ n - Len(log) \in 1..Len(ids)
  BY <1>1, <1>8
<1>12. \A i \in RpcId :
         \/ \E j \in 1..Len(ids) : ids[j] = i /\ pending'[i] = Len(log) + j
         \/ (\A j \in 1..Len(ids) : ids[j] # i) /\ pending'[i] = pending[i]
  <2> SUFFICES ASSUME NEW i \in RpcId
               PROVE  \/ \E j \in 1..Len(ids) : ids[j] = i /\ pending'[i] = Len(log) + j
                      \/ (\A j \in 1..Len(ids) : ids[j] # i) /\ pending'[i] = pending[i]
    OBVIOUS
  <2>1. CASE \E j \in 1..Len(ids) : ids[j] = i
    <3> DEFINE k == CHOOSE j \in 1..Len(ids) : ids[j] = i
    <3>1. k \in 1..Len(ids) /\ ids[k] = i
      BY <2>1
    <3>2. pending'[i] = Len(log) + k
      BY <1>4, <2>1
    <3>3. QED
      BY <3>1, <3>2
  <2>2. CASE ~\E j \in 1..Len(ids) : ids[j] = i
    BY <1>4, <2>2
  <2>3. QED
    BY <2>1, <2>2
<1>13. pending' \in [RpcId -> 0..Len(log')]
  <2>1. pending \in [RpcId -> 0..Len(log)]
    BY DEF TypeOK
  <2>2. \A i \in RpcId : pending'[i] \in 0..Len(log')
    <3> SUFFICES ASSUME NEW i \in RpcId PROVE pending'[i] \in 0..Len(log')
      OBVIOUS
    <3>1. CASE \E j \in 1..Len(ids) : pending'[i] = Len(log) + j
      BY <1>1, <1>8, <3>1
    <3>2. CASE pending'[i] = pending[i]
      BY <1>1, <1>8, <2>1, <3>2
    <3>3. QED
      BY <1>12, <3>1, <3>2
  <2>3. DOMAIN pending' = RpcId /\ pending' = [i \in RpcId |-> pending'[i]]
    BY <1>4
  <2>4. QED
    BY <2>2, <2>3
<1>14. QED
  BY <1>1, <1>3, <1>6, <1>8, <1>9, <1>10, <1>11, <1>12, <1>13 DEF ids, notices

\* The end of an answer ends the event that the call's id finds, if any.
LEMMA CompleteEffect ==
  ASSUME TypeOK, NEW c \in Call, NEW status \in {"completed", "failed"},
         record_complete(c, status)
  PROVE  LET n == Awaited(c) IN
         \/ n = 0 /\ UNCHANGED <<log, pending, live>>
         \/ /\ rpc[c] \in RpcId /\ n = pending[rpc[c]] /\ n \in 1..Len(log)
            /\ log' \in Seq(Event) /\ Len(log') = Len(log)
            /\ \A k \in 1..Len(log) :
                 /\ log'[k].of = log[k].of /\ log'[k].id = log[k].id
                 /\ log'[k].status = IF k = n THEN status ELSE log[k].status
            /\ pending' \in [RpcId -> 0..Len(log)] /\ pending'[rpc[c]] = 0
            /\ \A i \in RpcId : i # rpc[c] => pending'[i] = pending[i]
            /\ live' = [w \in Socket |-> IF w \in subs
                          THEN live[w] \o <<[event |-> n, status |-> status]>> ELSE live[w]]
<1> DEFINE n == Awaited(c)
<1>1. /\ log \in Seq(Event) /\ Len(log) \in Nat /\ rpc[c] \in RpcId \cup {None}
      /\ pending \in [RpcId -> 0..Len(log)]
  BY LenProperties DEF TypeOK
<1>2. CASE n = 0
  BY <1>2 DEF record_complete, Awaited
<1>3. CASE n # 0
  <2>1. rpc[c] \in RpcId /\ n = pending[rpc[c]] /\ n \in 1..Len(log)
    BY <1>1, <1>3 DEF Awaited
  <2>2. /\ log' = [log EXCEPT ![n].status = status]
        /\ pending' = [pending EXCEPT ![rpc[c]] = 0]
        /\ live' = [w \in Socket |-> IF w \in subs
                     THEN live[w] \o <<[event |-> n, status |-> status]>> ELSE live[w]]
    BY <1>3 DEF record_complete, Awaited, Broadcast
  <2> HIDE DEF n
  <2>3. log[n] \in Event
    BY <1>1, <2>1, ElementOfSeq
  <2>4. [log[n] EXCEPT !.status = status] \in Event
    BY <2>3 DEF Event, Status
  <2>5. log' = [log EXCEPT ![n] = [log[n] EXCEPT !.status = status]]
    BY <2>2
  <2>6. log' \in Seq(Event) /\ Len(log') = Len(log)
        /\ \A k \in 1..Len(log) :
             log'[k] = IF k = n THEN [log[n] EXCEPT !.status = status] ELSE log[k]
    BY <1>1, <2>1, <2>4, <2>5, ExceptSeq
  <2>7. \A k \in 1..Len(log) :
          /\ log'[k].of = log[k].of /\ log'[k].id = log[k].id
          /\ log'[k].status = IF k = n THEN status ELSE log[k].status
    BY <2>3, <2>6 DEF Event
  <2>8. /\ pending' \in [RpcId -> 0..Len(log)] /\ pending'[rpc[c]] = 0
        /\ \A i \in RpcId : i # rpc[c] => pending'[i] = pending[i]
    BY <1>1, <2>1, <2>2
  <2>9. QED
    BY <2>1, <2>2, <2>6, <2>7, <2>8 DEF n
<1>4. QED
  BY <1>2, <1>3

-----------------------------------------------------------------------------
(* The types. *)

LEMMA InitTypes == Init => TypeOK
<1> SUFFICES ASSUME Init PROVE TypeOK
  OBVIOUS
<1>1. /\ stage = [c \in Call |-> "none"] /\ capture = None /\ rpc = [c \in Call |-> None]
      /\ log = << >> /\ pending = [i \in RpcId |-> 0] /\ mixed = FALSE
      /\ subs = {} /\ history = [w \in Socket |-> << >>] /\ live = [w \in Socket |-> << >>]
      /\ shown = [w \in Socket |-> << >>] /\ since = [w \in Socket |-> 0]
      /\ overtaken = [w \in Socket |-> {}]
      /\ version = 0 /\ cache = None /\ scanning = FALSE
  BY DEF Init
<1>2. << >> \in Seq(Event) /\ << >> \in Seq(Notice) /\ Len(<< >>) = 0
  BY EmptySeq
<1>3. /\ stage \in [Call -> {"none", "started", "received", "answering", "done", "dropped"}]
      /\ capture \in Call \cup {None} /\ rpc \in [Call -> RpcId \cup {None}]
      /\ log \in Seq(Event)
  BY <1>1, <1>2
<1>4. pending \in [RpcId -> 0..Len(log)]
  BY <1>1, <1>2
<1>5. /\ history \in [Socket -> Seq(Notice)] /\ live \in [Socket -> Seq(Notice)]
      /\ shown \in [Socket -> Seq(Notice)]
  BY <1>1, <1>2
<1>6. /\ subs \in SUBSET Socket /\ since \in [Socket -> Nat] /\ overtaken \in [Socket -> SUBSET Nat]
  BY <1>1
<1>7. /\ mixed \in BOOLEAN /\ version \in Nat /\ cache \in [version : Nat, at : Nat] \cup {None}
      /\ scanning \in BOOLEAN
  BY <1>1
<1>8. QED
  BY <1>3, <1>4, <1>5, <1>6, <1>7 DEF TypeOK

\* addEvent replaces or appends, and drops the first one.
LEMMA AddEvent ==
  ASSUME TypeOK, NEW w \in Socket, NEW n \in Notice, addEvent(w, n)
  PROVE  /\ shown' = [shown EXCEPT ![w] = Added(shown[w], n)]
         /\ shown'[w] = Added(shown[w], n) /\ \A v \in Socket : v # w => shown'[v] = shown[v]
BY DEF TypeOK, addEvent, Added, Rest

\* What a new browser is sent first.
LEMMA HistoryIsSeq ==
  ASSUME TypeOK, NEW o
  PROVE  GetHistory \in Seq(Notice) /\ Fits(GetHistory, << >>, << >>, o, Len(log), log)
<1> DEFINE k == IF Len(log) < HistoryLimit THEN Len(log) ELSE HistoryLimit
<1>1. log \in Seq(Event) /\ Len(log) \in Nat /\ k \in Nat /\ k <= Len(log)
  BY LenProperties, LimitAssumption DEF TypeOK
<1>2. GetHistory =
        [i \in 1..k |-> [event |-> Len(log) - k + i, status |-> log[Len(log) - k + i].status]]
  BY DEF GetHistory
<1> HIDE DEF k
<1>3. QED
  BY <1>1, <1>2, FitsConnect

LEMMA CallTypes ==
  ASSUME TypeOK, NEW c \in Call,
         Start(c) \/ Receive(c) \/ FirstChunk(c) \/ LastChunk(c) \/ Drop(c)
  PROVE  TypeOK'
<1>1. CASE Start(c) \/ FirstChunk(c) \/ Drop(c)
  <2>1. /\ stage' \in [Call -> {"none", "started", "received", "answering", "done", "dropped"}]
        /\ capture' \in Call \cup {None} /\ version' \in Nat
        /\ UNCHANGED <<rpc, log, pending, mixed, sockVars, cache, scanning>>
    <3>1. /\ stage \in [Call -> {"none", "started", "received", "answering", "done", "dropped"}]
          /\ capture \in Call \cup {None} /\ version \in Nat
      BY DEF TypeOK
    <3>2. CASE Start(c)
      BY <3>1, <3>2 DEF Start, overVars
    <3>3. CASE FirstChunk(c)
      BY <3>1, <3>3 DEF FirstChunk
    <3>4. CASE Drop(c)
      BY <3>1, <3>4 DEF Drop, overVars
    <3>5. QED
      BY <1>1, <3>2, <3>3, <3>4
  <2>2. QED
    BY <2>1 DEF TypeOK, sockVars
<1>2. CASE Receive(c)
  <2>1. /\ stage' \in [Call -> {"none", "started", "received", "answering", "done", "dropped"}]
        /\ UNCHANGED <<capture, subs, history, shown, since, overtaken, version, cache, scanning>>
    BY <1>2 DEF TypeOK, Receive, overVars
  <2>2. /\ log' \in Seq(Event) /\ pending' \in [RpcId -> 0..Len(log')]
        /\ NoticesFrom(Len(log), Len(ToolCalls[c])) \in Seq(Notice)
        /\ live' = [w \in Socket |-> IF w \in subs
                     THEN live[w] \o NoticesFrom(Len(log), Len(ToolCalls[c])) ELSE live[w]]
    BY <1>2, ReceiveEffect
  <2>3. live' \in [Socket -> Seq(Notice)]
    <3>1. \A w \in Socket :
            live[w] \in Seq(Notice) /\
            live[w] \o NoticesFrom(Len(log), Len(ToolCalls[c])) \in Seq(Notice)
      BY <2>2, Joined DEF TypeOK
    <3>2. QED
      BY <2>2, <3>1
  <2>4. rpc' \in [Call -> RpcId \cup {None}]
    <3>1. CASE ToolCalls[c] = << >>
      BY <1>2, <3>1 DEF Receive, TypeOK
    <3>2. CASE ToolCalls[c] # << >>
      <4>1. ToolCalls[c] \in Seq(RpcId) /\ Len(ToolCalls[c]) \in 1..Len(ToolCalls[c])
        BY <3>2, CallAssumption, EmptySeq
      <4>2. ToolCalls[c][Len(ToolCalls[c])] \in RpcId
        BY <4>1, ElementOfSeq
      <4>3. rpc' = [rpc EXCEPT ![capture] = ToolCalls[c][Len(ToolCalls[c])]]
        BY <1>2, <3>2 DEF Receive
      <4>4. QED
        BY <4>2, <4>3 DEF TypeOK
    <3>3. QED
      BY <3>1, <3>2
  <2>5. mixed' \in BOOLEAN
    BY <1>2 DEF Receive, TypeOK
  <2>6. QED
    BY <2>1, <2>2, <2>3, <2>4, <2>5 DEF TypeOK
<1>3. CASE LastChunk(c)
  <2>1. /\ stage' \in [Call -> {"none", "started", "received", "answering", "done", "dropped"}]
        /\ UNCHANGED <<capture, rpc, mixed, subs, history, shown, since, overtaken,
                       version, cache, scanning>>
    BY <1>3 DEF TypeOK, LastChunk, overVars
  <2>2. PICK status \in {"completed", "failed"} : record_complete(c, status)
    BY <1>3 DEF LastChunk
  <2>3. CASE UNCHANGED <<log, pending, live>>
    BY <2>1, <2>3 DEF TypeOK
  <2>4. CASE ~UNCHANGED <<log, pending, live>>
    <3> DEFINE n == Awaited(c)
    <3>1. /\ n \in 1..Len(log) /\ log' \in Seq(Event) /\ Len(log') = Len(log)
          /\ pending' \in [RpcId -> 0..Len(log)]
          /\ live' = [w \in Socket |-> IF w \in subs
                       THEN live[w] \o <<[event |-> n, status |-> status]>> ELSE live[w]]
      BY <2>2, <2>4, CompleteEffect
    <3>2. [event |-> n, status |-> status] \in Notice
      BY <3>1 DEF Notice, Status
    <3> HIDE DEF n
    <3>3. \A w \in Socket :
            live[w] \in Seq(Notice)
            /\ live[w] \o <<[event |-> n, status |-> status]>> \in Seq(Notice)
      BY <3>2, Joined DEF TypeOK
    <3>4. live' \in [Socket -> Seq(Notice)]
      BY <3>1, <3>3
    <3>5. QED
      BY <2>1, <3>1, <3>4 DEF TypeOK
  <2>5. QED
    BY <2>3, <2>4
<1>4. QED
  BY <1>1, <1>2, <1>3

LEMMA SocketTypes ==
  ASSUME TypeOK, NEW w \in Socket, Connect(w) \/ SendHistory(w) \/ SendLive(w)
  PROVE  TypeOK'
<1>1. CASE Connect(w)
  <2>1. GetHistory \in Seq(Notice) /\ Len(log) \in Nat
    BY HistoryIsSeq, LenProperties DEF TypeOK
  <2>2. /\ history' \in [Socket -> Seq(Notice)] /\ since' \in [Socket -> Nat]
        /\ subs' \in SUBSET Socket
    BY <1>1, <2>1 DEF Connect, TypeOK
  <2>3. UNCHANGED <<stage, capture, rpc, log, pending, mixed, live, shown, overtaken,
                    version, cache, scanning>>
    BY <1>1 DEF Connect, callVars, overVars
  <2>4. QED
    BY <2>2, <2>3 DEF TypeOK
<1>2. CASE SendHistory(w)
  <2>1. history[w] \in Seq(Notice) /\ history[w] # << >> /\ shown[w] \in Seq(Notice)
    BY <1>2 DEF SendHistory, TypeOK
  <2>2. Head(history[w]) \in Notice /\ Tail(history[w]) \in Seq(Notice)
    BY <2>1, HeadTail
  <2>3. shown' \in [Socket -> Seq(Notice)]
    <3>1. shown' = [shown EXCEPT ![w] = Added(shown[w], Head(history[w]))]
      BY <1>2, <2>2, AddEvent DEF SendHistory
    <3>2. Added(shown[w], Head(history[w])) \in Seq(Notice)
      BY <2>1, <2>2, AddedTyped
    <3>3. QED
      BY <3>1, <3>2 DEF TypeOK
  <2>4. history' \in [Socket -> Seq(Notice)]
    BY <1>2, <2>2 DEF SendHistory, TypeOK
  <2>5. UNCHANGED <<stage, capture, rpc, log, pending, mixed, subs, live, since, overtaken,
                    version, cache, scanning>>
    BY <1>2 DEF SendHistory, callVars, overVars
  <2>6. QED
    BY <2>3, <2>4, <2>5 DEF TypeOK
<1>3. CASE SendLive(w)
  <2>1. live[w] \in Seq(Notice) /\ live[w] # << >> /\ shown[w] \in Seq(Notice)
    BY <1>3 DEF SendLive, TypeOK
  <2>2. Head(live[w]) \in Notice /\ Tail(live[w]) \in Seq(Notice)
    BY <2>1, HeadTail
  <2>3. shown' \in [Socket -> Seq(Notice)]
    <3>1. shown' = [shown EXCEPT ![w] = Added(shown[w], Head(live[w]))]
      BY <1>3, <2>2, AddEvent DEF SendLive
    <3>2. Added(shown[w], Head(live[w])) \in Seq(Notice)
      BY <2>1, <2>2, AddedTyped
    <3>3. QED
      BY <3>1, <3>2 DEF TypeOK
  <2>4. live' \in [Socket -> Seq(Notice)] /\ overtaken' \in [Socket -> SUBSET Nat]
    BY <1>3, <2>2 DEF SendLive, TypeOK, Notice
  <2>5. UNCHANGED <<stage, capture, rpc, log, pending, mixed, subs, history, since,
                    version, cache, scanning>>
    BY <1>3 DEF SendLive, callVars, overVars
  <2>6. QED
    BY <2>3, <2>4, <2>5 DEF TypeOK
<1>4. QED
  BY <1>1, <1>2, <1>3

LEMMA OverviewTypes ==
  ASSUME TypeOK, Overview \/ ScanEnds \/ ScanFails \/ UNCHANGED vars
  PROVE  TypeOK' /\ UNCHANGED <<callVars, sockVars>>
<1>1. UNCHANGED <<callVars, sockVars>>
  BY DEF Overview, ScanEnds, ScanFails, vars
<1>2. version' = version
  BY DEF Overview, ScanEnds, ScanFails, vars, overVars
<1>3. cache' \in [version : Nat, at : Nat] \cup {None}
  <2>1. version \in Nat /\ Len(log) \in Nat /\ cache \in [version : Nat, at : Nat] \cup {None}
    BY LenProperties DEF TypeOK
  <2>2. [version |-> version, at |-> Len(log)] \in [version : Nat, at : Nat]
    BY <2>1
  <2>3. cache' = cache \/ cache' = [version |-> version, at |-> Len(log)]
    BY DEF Overview, ScanEnds, ScanFails, vars, overVars
  <2>4. QED
    BY <2>1, <2>2, <2>3
<1>4. scanning' \in BOOLEAN
  BY DEF TypeOK, Overview, ScanEnds, ScanFails, vars, overVars
<1>5. QED
  BY <1>1, <1>2, <1>3, <1>4 DEF TypeOK, callVars, sockVars

LEMMA TypesStep == TypeOK /\ [Next]_vars => TypeOK'
<1> SUFFICES ASSUME TypeOK, [Next]_vars PROVE TypeOK'
  OBVIOUS
<1>1. CASE \E c \in Call : Start(c) \/ Receive(c) \/ FirstChunk(c) \/ LastChunk(c) \/ Drop(c)
  BY <1>1, CallTypes
<1>2. CASE \E w \in Socket : Connect(w) \/ SendHistory(w) \/ SendLive(w)
  BY <1>2, SocketTypes
<1>3. CASE Overview \/ ScanEnds \/ ScanFails \/ UNCHANGED vars
  BY <1>3, OverviewTypes
<1>4. QED
  BY <1>1, <1>2, <1>3 DEF Next

-----------------------------------------------------------------------------
(* A call and its event. *)

LEMMA InitCallInv == Init => CallInv
<1> SUFFICES ASSUME Init PROVE CallInv
  OBVIOUS
<1>1. /\ \A c \in Call : stage[c] = "none" /\ rpc[c] = None
      /\ \A i \in RpcId : pending[i] = 0
      /\ Len(log) = 0
  BY EmptySeq DEF Init
<1>2. Captured /\ Unread /\ OwnId /\ Found /\ PendingEvents /\ Ends
  BY <1>1 DEF Captured, Unread, OwnId, Found, PendingEvents, Ends
<1>3. QED
  BY <1>2 DEF CallInv, Apart

\* A call is received by itself: its events are new, and its id finds the last one.
LEMMA ReceiveApart ==
  ASSUME TypeOK, CallInv, NEW c \in Call, Receive(c), ~mixed'
  PROVE  Apart'
<1> DEFINE ids == ToolCalls[c]
<1>1. /\ ids \in Seq(RpcId) /\ Len(ids) \in Nat /\ Len(log) \in Nat
      /\ Len(log') = Len(log) + Len(ids)
      /\ \A n \in 1..Len(log) : n \in 1..Len(log') /\ log'[n] = log[n]
      /\ \A j \in 1..Len(ids) :
           /\ Len(log) + j \in 1..Len(log')
           /\ log'[Len(log) + j].of = c /\ log'[Len(log) + j].id = ids[j]
           /\ log'[Len(log) + j].status = "pending"
      /\ \A n \in 1..Len(log') : n \in 1..Len(log) \/ n - Len(log) \in 1..Len(ids)
      /\ \A i \in RpcId :
           \/ \E j \in 1..Len(ids) : ids[j] = i /\ pending'[i] = Len(log) + j
           \/ (\A j \in 1..Len(ids) : ids[j] # i) /\ pending'[i] = pending[i]
  BY ReceiveEffect
<1>2. /\ stage[c] = "started" /\ stage' = [stage EXCEPT ![c] = "received"]
      /\ rpc' = IF ids = << >> THEN rpc ELSE [rpc EXCEPT ![capture] = Last(c)]
  BY DEF Receive, Last
<1>3. ~mixed /\ \A j \in 1..Len(ids) : capture = c /\ pending[ids[j]] = 0
  BY DEF Receive
<1>4. Unread /\ OwnId /\ Found /\ PendingEvents /\ Ends
  BY <1>3 DEF CallInv, Apart
<1>5. /\ stage \in [Call -> {"none", "started", "received", "answering", "done", "dropped"}]
      /\ rpc \in [Call -> RpcId \cup {None}] /\ pending \in [RpcId -> 0..Len(log)]
      /\ None \notin RpcId
  BY CallAssumption DEF TypeOK
<1>6. stage'[c] = "received" /\ \A d \in Call : d # c => stage'[d] = stage[d]
  BY <1>2, <1>5
<1>7. rpc[c] = None /\ \A n \in 1..Len(log) : log[n].of # c
  BY <1>2, <1>4 DEF Unread
<1>8. ids # << >> => Len(ids) \in 1..Len(ids) /\ Last(c) \in RpcId /\ Last(c) = ids[Len(ids)]
  <2>1. ids # << >> => Len(ids) \in 1..Len(ids)
    BY <1>1, EmptySeq
  <2>2. QED
    BY <1>1, <2>1, ElementOfSeq DEF Last
<1>9. /\ \A d \in Call : d # c => rpc'[d] = rpc[d]
      /\ rpc'[c] = IF ids = << >> THEN None ELSE Last(c)
  BY <1>2, <1>3, <1>5, <1>7, <1>8
<1>10. ids = << >> <=> Len(ids) = 0
  BY <1>1, EmptySeq
<1> HIDE DEF ids
<1>11. \A n \in 1..Len(log') :
         \/ n \in 1..Len(log) /\ log'[n] = log[n] /\ log[n].of # c
         \/ \E j \in 1..Len(ids) : /\ n = Len(log) + j /\ log'[n].of = c /\ log'[n].id = ids[j]
                                   /\ log'[n].status = "pending"
  <2> SUFFICES ASSUME NEW n \in 1..Len(log'), n \notin 1..Len(log)
               PROVE  \E j \in 1..Len(ids) :
                        /\ n = Len(log) + j /\ log'[n].of = c /\ log'[n].id = ids[j]
                        /\ log'[n].status = "pending"
    BY <1>1, <1>7
  <2>1. n - Len(log) \in 1..Len(ids) /\ n = Len(log) + (n - Len(log))
    BY <1>1
  <2>2. QED
    BY <1>1, <2>1
<1>12. Unread' /\ OwnId'
  <2>1. Unread'
    BY <1>4, <1>6, <1>9, <1>11 DEF Unread
  <2>2. OwnId'
    BY <1>4, <1>9 DEF OwnId, Last, ids
  <2>3. QED
    BY <2>1, <2>2
<1>13. Found'
  <2> SUFFICES ASSUME NEW d \in Call, stage'[d] \in {"received", "answering"}, ToolCalls[d] # << >>
               PROVE  /\ rpc'[d] = Last(d) /\ Awaited(d)' > 0 /\ log'[Awaited(d)'].of = d
                      /\ Len(ToolCalls[d]) = 1 =>
                           \A n \in 1..Len(log') : log'[n].of = d => n = Awaited(d)'
    BY DEF Found, Last
  <2>1. CASE d = c
    <3>1. rpc'[c] = Last(c) /\ Last(c) \in RpcId /\ Last(c) # None
      BY <1>5, <1>8, <1>9, <2>1 DEF ids
    <3>2. PICK j \in 1..Len(ids) : pending'[Last(c)] = Len(log) + j
      BY <1>1, <1>8, <2>1, <3>1 DEF ids
    <3>3. Awaited(c)' = Len(log) + j
      BY <3>1, <3>2 DEF Awaited
    <3>4. Len(ids) = 1 => j = 1
      BY <3>2
    <3>5. \A n \in 1..Len(log') : log'[n].of = c => \E k \in 1..Len(ids) : n = Len(log) + k
      BY <1>11
    <3>6. Len(ids) = 1 => \A n \in 1..Len(log') : log'[n].of = c => n = Len(log) + 1
      BY <3>5
    <3>7. log'[Len(log) + j].of = c
      BY <1>1
    <3>8. Len(log) + j > 0
      BY <1>1
    <3>9. QED
      BY <2>1, <3>1, <3>3, <3>4, <3>6, <3>7, <3>8 DEF ids
  <2>2. CASE d # c
    <3>1. /\ rpc[d] = Last(d) /\ Awaited(d) > 0 /\ log[Awaited(d)].of = d
          /\ Len(ToolCalls[d]) = 1 =>
               \A n \in 1..Len(log) : log[n].of = d => n = Awaited(d)
      BY <1>4, <1>6, <2>2 DEF Found
    <3>2. /\ rpc'[d] = rpc[d] /\ rpc[d] \in RpcId /\ Awaited(d) = pending[rpc[d]]
          /\ Awaited(d) \in 1..Len(log)
      BY <1>1, <1>5, <1>9, <2>2, <3>1 DEF Awaited
    <3>3. \A j \in 1..Len(ids) : ids[j] # rpc[d]
      BY <1>3, <3>1, <3>2 DEF ids
    <3>4. Awaited(d)' = Awaited(d)
      BY <1>1, <1>5, <3>2, <3>3 DEF Awaited, ids
    <3>5. \A n \in 1..Len(log') : log'[n].of = d => n \in 1..Len(log) /\ log[n].of = d
      BY <1>11, <2>2
    <3>6. QED
      BY <1>1, <3>1, <3>2, <3>4, <3>5
  <2>3. QED
    BY <2>1, <2>2
<1>14. PendingEvents'
  <2> SUFFICES ASSUME NEW i \in RpcId, pending'[i] > 0
               PROVE  log'[pending'[i]].id = i /\ log'[pending'[i]].status = "pending"
    BY DEF PendingEvents
  <2>1. CASE \E j \in 1..Len(ids) : ids[j] = i /\ pending'[i] = Len(log) + j
    BY <1>1, <2>1 DEF ids
  <2>2. CASE pending'[i] = pending[i]
    <3>1. pending[i] \in 1..Len(log)
      BY <1>1, <1>5, <2>2
    <3>2. log[pending[i]].id = i /\ log[pending[i]].status = "pending"
      BY <1>4, <2>2 DEF PendingEvents
    <3>3. QED
      BY <1>1, <2>2, <3>1, <3>2
  <2>3. QED
    BY <1>1, <2>1, <2>2 DEF ids
<1>15. Ends'
  <2> SUFFICES ASSUME NEW n \in 1..Len(log')
               PROVE  /\ log'[n].status # "pending" => stage'[log'[n].of] = "done"
                      /\ stage'[log'[n].of] = "done" /\ Len(ToolCalls[log'[n].of]) = 1
                           => log'[n].status # "pending"
    BY DEF Ends
  <2>1. CASE n \in 1..Len(log) /\ log'[n] = log[n] /\ log[n].of # c
    <3>1. log[n].of \in Call
      BY <2>1, LogEvents
    <3>2. QED
      BY <1>4, <1>6, <2>1, <3>1 DEF Ends
  <2>2. CASE log'[n].of = c /\ log'[n].status = "pending"
    BY <1>6, <2>2
  <2>3. QED
    BY <1>11, <2>1, <2>2
<1>16. QED
  BY <1>12, <1>13, <1>14, <1>15 DEF Apart

\* The last chunk ends the call's own event, the last of a batch, and no other.
LEMMA LastChunkApart ==
  ASSUME TypeOK, CallInv, NEW c \in Call, LastChunk(c), ~mixed'
  PROVE  Apart'
<1>1. /\ stage[c] = "answering" /\ stage' = [stage EXCEPT ![c] = "done"]
      /\ UNCHANGED <<rpc, mixed>>
  BY DEF LastChunk
<1>2. Unread /\ OwnId /\ Found /\ PendingEvents /\ Ends
  BY <1>1 DEF CallInv, Apart
<1>3. /\ stage \in [Call -> {"none", "started", "received", "answering", "done", "dropped"}]
      /\ rpc \in [Call -> RpcId \cup {None}] /\ pending \in [RpcId -> 0..Len(log)]
      /\ None \notin RpcId /\ Len(log) \in Nat
      /\ \A n \in 1..Len(log) : log[n].of \in Call
  BY CallAssumption, LenProperties, LogEvents DEF TypeOK
<1>4. stage'[c] = "done" /\ \A d \in Call : d # c => stage'[d] = stage[d]
  BY <1>1, <1>3
<1>5. PICK status \in {"completed", "failed"} : record_complete(c, status)
  BY DEF LastChunk
<1>6. OwnId'
  BY <1>1, <1>2 DEF OwnId, Last
<1>7. CASE UNCHANGED <<log, pending, live>> /\ Awaited(c) = 0
  <2>1. ToolCalls[c] = << >>
    BY <1>1, <1>2, <1>7 DEF Found
  <2>2. Unread' /\ PendingEvents'
    BY <1>1, <1>2, <1>4, <1>7 DEF Unread, PendingEvents
  <2>3. Found'
    BY <1>1, <1>2, <1>4, <1>7 DEF Found, Awaited, Last
  <2>4. Ends'
    <3>1. Len(ToolCalls[c]) # 1
      BY <2>1, EmptySeq
    <3>2. QED
      BY <1>2, <1>3, <1>4, <1>7, <3>1 DEF Ends
  <2>5. QED
    BY <1>6, <2>2, <2>3, <2>4 DEF Apart
<1>8. CASE ~(UNCHANGED <<log, pending, live>> /\ Awaited(c) = 0)
  <2> DEFINE n == Awaited(c)
  <2>1. /\ rpc[c] \in RpcId /\ n = pending[rpc[c]] /\ n \in 1..Len(log)
        /\ Len(log') = Len(log)
        /\ \A k \in 1..Len(log) :
             /\ log'[k].of = log[k].of /\ log'[k].id = log[k].id
             /\ log'[k].status = IF k = n THEN status ELSE log[k].status
        /\ pending'[rpc[c]] = 0
        /\ \A i \in RpcId : i # rpc[c] => pending'[i] = pending[i]
    BY <1>5, <1>8, CompleteEffect
  <2>2. /\ ToolCalls[c] # << >> /\ log[n].of = c
        /\ Len(ToolCalls[c]) = 1 => \A k \in 1..Len(log) : log[k].of = c => k = n
    BY <1>1, <1>2, <1>3, <2>1 DEF Found, OwnId
  <2>3. log[n].id = rpc[c]
    BY <1>2, <2>1 DEF PendingEvents
  <2> HIDE DEF n
  <2>4. Unread'
    BY <1>1, <1>2, <1>4, <2>1 DEF Unread
  <2>5. Found'
    <3> SUFFICES ASSUME NEW d \in Call, stage'[d] \in {"received", "answering"},
                        ToolCalls[d] # << >>
                 PROVE  /\ rpc'[d] = Last(d) /\ Awaited(d)' > 0 /\ log'[Awaited(d)'].of = d
                        /\ Len(ToolCalls[d]) = 1 =>
                             \A k \in 1..Len(log') : log'[k].of = d => k = Awaited(d)'
      BY DEF Found, Last
    <3>1. d # c /\ stage[d] \in {"received", "answering"}
      BY <1>4
    <3>2. /\ rpc[d] = Last(d) /\ Awaited(d) > 0 /\ log[Awaited(d)].of = d
          /\ Len(ToolCalls[d]) = 1 =>
               \A k \in 1..Len(log) : log[k].of = d => k = Awaited(d)
      BY <1>2, <3>1 DEF Found
    <3>3. /\ rpc[d] \in RpcId /\ Awaited(d) = pending[rpc[d]] /\ Awaited(d) \in 1..Len(log)
      BY <1>3, <3>2 DEF Awaited
    <3>4. rpc[d] # rpc[c]
      BY <2>1, <2>2, <3>1, <3>2, <3>3
    <3>5. Awaited(d)' = Awaited(d)
      BY <1>1, <1>3, <2>1, <3>3, <3>4 DEF Awaited
    <3>6. QED
      BY <1>1, <2>1, <3>2, <3>3, <3>5
  <2>6. PendingEvents'
    <3> SUFFICES ASSUME NEW i \in RpcId, pending'[i] > 0
                 PROVE  log'[pending'[i]].id = i /\ log'[pending'[i]].status = "pending"
      BY DEF PendingEvents
    <3>1. i # rpc[c] /\ pending'[i] = pending[i]
      BY <2>1
    <3>2. /\ pending[i] \in 1..Len(log) /\ log[pending[i]].id = i
          /\ log[pending[i]].status = "pending"
      BY <1>2, <1>3, <3>1 DEF PendingEvents
    <3>3. pending[i] # n
      BY <2>3, <3>1, <3>2
    <3>4. QED
      BY <2>1, <3>1, <3>2, <3>3
  <2>7. Ends'
    <3> SUFFICES ASSUME NEW k \in 1..Len(log')
                 PROVE  /\ log'[k].status # "pending" => stage'[log'[k].of] = "done"
                        /\ stage'[log'[k].of] = "done" /\ Len(ToolCalls[log'[k].of]) = 1
                             => log'[k].status # "pending"
      BY DEF Ends
    <3>1. k \in 1..Len(log) /\ log'[k].of = log[k].of /\ log[k].of \in Call
      BY <1>3, <2>1
    <3>2. CASE k = n
      BY <1>4, <2>1, <2>2, <3>1, <3>2
    <3>3. CASE k # n
      BY <1>2, <1>4, <2>1, <2>2, <3>1, <3>3 DEF Ends
    <3>4. QED
      BY <3>2, <3>3
  <2>8. QED
    BY <1>6, <2>4, <2>5, <2>6, <2>7 DEF Apart
<1>9. QED
  BY <1>7, <1>8

LEMMA CallStep == TypeOK /\ CallInv /\ [Next]_vars => CallInv'
<1> SUFFICES ASSUME TypeOK, CallInv, [Next]_vars PROVE CallInv'
  OBVIOUS
<1>1. /\ stage \in [Call -> {"none", "started", "received", "answering", "done", "dropped"}]
      /\ None \notin Call /\ \A n \in 1..Len(log) : log[n].of \in Call
  BY CallAssumption, LogEvents DEF TypeOK
<1>2. ASSUME NEW c \in Call, Receive(c) PROVE CallInv'
  <2>1. Captured'
    BY <1>1, <1>2 DEF CallInv, Captured, Receive
  <2>2. QED
    BY <1>2, <2>1, ReceiveApart DEF CallInv
<1>3. ASSUME NEW c \in Call, LastChunk(c) PROVE CallInv'
  <2>1. Captured'
    BY <1>1, <1>3 DEF CallInv, Captured, LastChunk
  <2>2. QED
    BY <1>3, <2>1, LastChunkApart DEF CallInv
<1>4. ASSUME NEW c \in Call, Start(c) \/ FirstChunk(c) \/ Drop(c) PROVE CallInv'
  <2>1. UNCHANGED <<rpc, log, pending, mixed>>
    BY <1>4 DEF Start, FirstChunk, Drop
  <2>2. /\ \A d \in Call : d # c => stage'[d] = stage[d]
        /\ \/ stage[c] = "none" /\ stage'[c] = "started" /\ capture' = c
           \/ stage[c] = "received" /\ stage'[c] = "answering" /\ capture' = capture
           \/ stage[c] # "done" /\ stage'[c] = "dropped" /\ capture' = capture
    BY <1>1, <1>4 DEF Start, FirstChunk, Drop
  <2>3. Captured'
    BY <1>1, <2>2 DEF CallInv, Captured
  <2>4. ASSUME Apart PROVE Apart'
    <3>1. Unread' /\ OwnId' /\ PendingEvents'
      BY <2>1, <2>2, <2>4 DEF Apart, Unread, OwnId, PendingEvents, Last
    <3>2. Found'
      BY <2>1, <2>2, <2>4 DEF Apart, Found, Awaited, Last
    <3>3. Ends'
      BY <1>1, <2>1, <2>2, <2>4 DEF Apart, Ends
    <3>4. QED
      BY <3>1, <3>2, <3>3 DEF Apart
  <2>5. QED
    BY <2>1, <2>3, <2>4 DEF CallInv
<1>5. CASE UNCHANGED callVars
  <2>1. UNCHANGED <<stage, capture, rpc, log, pending, mixed>>
    BY <1>5 DEF callVars
  <2>2. QED
    BY <2>1 DEF CallInv, Captured, Apart, Unread, OwnId, Found, Awaited, PendingEvents, Ends, Last
<1>6. ASSUME NEW w \in Socket, Connect(w) \/ SendHistory(w) \/ SendLive(w) PROVE CallInv'
  BY <1>5, <1>6 DEF Connect, SendHistory, SendLive
<1>7. CASE Overview \/ ScanEnds \/ ScanFails \/ UNCHANGED vars
  BY <1>5, <1>7, OverviewTypes
<1>8. QED
  BY <1>2, <1>3, <1>4, <1>6, <1>7 DEF Next

-----------------------------------------------------------------------------
(* The browsers. *)

\* A browser that is connected fits the log; another one has nothing, and is sent
\* nothing.
SocketOK(w) ==
  IF w \in subs THEN Fits(history[w], live[w], shown[w], overtaken[w], since[w], log)
  ELSE history[w] = << >> /\ live[w] = << >> /\ shown[w] = << >>

Sockets == \A w \in Socket : SocketOK(w)

LEMMA InitSockets == Init => Sockets
BY DEF Init, Sockets, SocketOK

\* What does not concern a browser leaves it as it is.
LEMMA SocketQuiet ==
  ASSUME NEW w \in Socket, SocketOK(w), UNCHANGED log, (w \in subs)' = (w \in subs),
         history'[w] = history[w], live'[w] = live[w], shown'[w] = shown[w],
         overtaken'[w] = overtaken[w], since'[w] = since[w]
  PROVE  SocketOK(w)'
BY DEF SocketOK

\* The types of what a browser has.
LEMMA SocketTyped ==
  TypeOK => \A w \in Socket :
    /\ history[w] \in Seq(Notice) /\ live[w] \in Seq(Notice) /\ shown[w] \in Seq(Notice)
    /\ since[w] \in Nat /\ log \in Seq(Event) /\ Len(log) \in Nat
BY LenProperties DEF TypeOK

LEMMA ConnectSockets ==
  ASSUME TypeOK, Sockets, NEW w \in Socket, Connect(w)
  PROVE  Sockets'
<1>1. /\ w \notin subs /\ subs' = subs \cup {w}
      /\ history' = [history EXCEPT ![w] = GetHistory] /\ since' = [since EXCEPT ![w] = Len(log)]
      /\ UNCHANGED <<log, live, shown, overtaken>>
  BY DEF Connect, callVars
<1>2. /\ DOMAIN history = Socket /\ DOMAIN since = Socket
  BY DEF TypeOK
<1>3. ASSUME NEW v \in Socket, v # w PROVE SocketOK(v)'
  BY <1>1, <1>2, <1>3, SocketQuiet DEF Sockets
<1>4. SocketOK(w)'
  <2>1. /\ w \in subs' /\ history'[w] = GetHistory /\ since'[w] = Len(log)
        /\ live'[w] = << >> /\ shown'[w] = << >>
    BY <1>1, <1>2 DEF Sockets, SocketOK
  <2>2. Fits(GetHistory, << >>, << >>, overtaken[w], Len(log), log)
    BY HistoryIsSeq
  <2>3. QED
    BY <1>1, <2>1, <2>2 DEF SocketOK
<1>5. QED
  BY <1>3, <1>4 DEF Sockets

LEMMA SendHistorySockets ==
  ASSUME TypeOK, Sockets, NEW w \in Socket, SendHistory(w)
  PROVE  Sockets'
<1> DEFINE n == Head(history[w])
<1>1. /\ history[w] # << >> /\ addEvent(w, n)
      /\ history' = [history EXCEPT ![w] = Tail(history[w])]
      /\ UNCHANGED <<log, subs, live, since, overtaken>>
  BY DEF SendHistory, callVars
<1>2. /\ DOMAIN history = Socket
      /\ history[w] \in Seq(Notice) /\ shown[w] \in Seq(Notice) /\ since[w] \in Nat
      /\ Len(log) \in Nat
  BY SocketTyped DEF TypeOK
<1>3. n \in Notice
  BY <1>1, <1>2, HeadTail
<1>4. shown'[w] = Added(shown[w], n) /\ \A v \in Socket : v # w => shown'[v] = shown[v]
  BY <1>1, <1>3, AddEvent
<1>6. w \in subs /\ Fits(history[w], live[w], shown[w], overtaken[w], since[w], log)
  BY <1>1 DEF Sockets, SocketOK
<1> HIDE DEF n
<1>7. ASSUME NEW v \in Socket, v # w PROVE SocketOK(v)'
  BY <1>1, <1>2, <1>4, <1>7, SocketQuiet DEF Sockets
<1>8. SocketOK(w)'
  <2>1. Fits(Tail(history[w]), live[w], Added(shown[w], n), overtaken[w], since[w], log)
    BY <1>1, <1>2, <1>6, FitsHistory DEF n
  <2>2. w \in subs' /\ history'[w] = Tail(history[w])
    BY <1>1, <1>2, <1>6
  <2>3. QED
    BY <1>1, <1>4, <2>1, <2>2 DEF SocketOK
<1>9. QED
  BY <1>7, <1>8 DEF Sockets

LEMMA SendLiveSockets ==
  ASSUME TypeOK, Sockets, NEW w \in Socket, SendLive(w)
  PROVE  Sockets'
<1> DEFINE n == Head(live[w])
<1>1. /\ live[w] # << >> /\ addEvent(w, n) /\ live' = [live EXCEPT ![w] = Tail(live[w])]
      /\ overtaken' = [overtaken EXCEPT ![w] = overtaken[w] \cup
           {e \in {n.event} : \E i \in 1..Len(history[w]) : history[w][i].event = e}]
      /\ UNCHANGED <<log, subs, history, since>>
  BY DEF SendLive, callVars
<1>2. /\ DOMAIN live = Socket /\ DOMAIN overtaken = Socket /\ history[w] \in Seq(Notice)
      /\ live[w] \in Seq(Notice) /\ shown[w] \in Seq(Notice) /\ since[w] \in Nat
  BY SocketTyped DEF TypeOK
<1>3. n \in Notice
  BY <1>1, <1>2, HeadTail
<1>4. shown'[w] = Added(shown[w], n) /\ \A v \in Socket : v # w => shown'[v] = shown[v]
  BY <1>1, <1>3, AddEvent
<1>9. overtaken'[w] = overtaken[w] \cup ({n.event} \cap Events(history[w]))
  <2>1. {e \in {n.event} : \E i \in 1..Len(history[w]) : history[w][i].event = e}
          = {n.event} \cap Events(history[w])
    BY DEF Events
  <2>2. QED
    BY <1>1, <1>2, <2>1
<1>5. w \in subs /\ Fits(history[w], live[w], shown[w], overtaken[w], since[w], log)
  BY <1>1 DEF Sockets, SocketOK
<1> HIDE DEF n
<1>6. ASSUME NEW v \in Socket, v # w PROVE SocketOK(v)'
  BY <1>1, <1>2, <1>4, <1>6, SocketQuiet DEF Sockets
<1>7. SocketOK(w)'
  <2>1. Fits(history[w], Tail(live[w]), Added(shown[w], n),
             overtaken[w] \cup ({n.event} \cap Events(history[w])), since[w], log)
    BY <1>1, <1>2, <1>5, FitsLive DEF n
  <2>2. w \in subs' /\ live'[w] = Tail(live[w])
    BY <1>1, <1>2, <1>5
  <2>3. QED
    BY <1>1, <1>4, <1>9, <2>1, <2>2 DEF SocketOK
<1>8. QED
  BY <1>6, <1>7 DEF Sockets

\* A broadcast goes to every browser that is connected.
LEMMA BroadcastSockets ==
  ASSUME TypeOK, TypeOK', Sockets, NEW t \in Seq(Notice), Broadcasts(t, log, log'),
         live' = [w \in Socket |-> IF w \in subs THEN live[w] \o t ELSE live[w]],
         UNCHANGED <<subs, history, shown, since, overtaken>>
  PROVE  Sockets'
<1> SUFFICES ASSUME NEW w \in Socket PROVE SocketOK(w)'
  BY DEF Sockets
<1>1. CASE w \in subs
  <2>1. Fits(history[w], live[w], shown[w], overtaken[w], since[w], log)
    BY <1>1 DEF Sockets, SocketOK
  <2>2. live[w] \in Seq(Notice) /\ since[w] \in Nat /\ Len(log) \in Nat /\ Len(log') \in Nat
    BY LenProperties DEF TypeOK
  <2>3. Fits(history[w], live[w] \o t, shown[w], overtaken[w], since[w], log')
    BY <2>1, <2>2, FitsBroadcast
  <2>4. live'[w] = live[w] \o t
    BY <1>1
  <2>5. QED
    BY <1>1, <2>3, <2>4 DEF SocketOK
<1>2. CASE w \notin subs
  BY <1>2 DEF Sockets, SocketOK
<1>3. QED
  BY <1>1, <1>2

LEMMA ReceiveSockets ==
  ASSUME TypeOK, TypeOK', Sockets, NEW c \in Call, Receive(c)
  PROVE  Sockets'
<1> DEFINE k == Len(ToolCalls[c])
           first == Len(log)
           t == NoticesFrom(first, k)
<1>1. /\ k \in Nat /\ first \in Nat /\ Len(log') = first + k
      /\ \A n \in 1..first : n \in 1..Len(log') /\ log'[n] = log[n]
      /\ \A j \in 1..k : first + j \in 1..Len(log') /\ log'[first + j].status = "pending"
      /\ \A n \in 1..Len(log') : n \in 1..first \/ n - first \in 1..k
      /\ t \in Seq(Notice) /\ Len(t) = k
      /\ live' = [w \in Socket |-> IF w \in subs THEN live[w] \o t ELSE live[w]]
  BY ReceiveEffect
<1>2. \A j \in 1..k : t[j].event = first + j /\ t[j].status = "pending"
  BY DEF NoticesFrom
<1>3. UNCHANGED <<subs, history, shown, since, overtaken>>
  BY DEF Receive
<1> HIDE DEF k, first, t
<1>4. Events(t) \subseteq 1..Len(log')
  BY <1>1, <1>2 DEF Events
<1>5. \A n \in (first + 1)..Len(log') : n \in Events(t)
  <2> SUFFICES ASSUME NEW n \in (first + 1)..Len(log') PROVE n \in Events(t)
    OBVIOUS
  <2>1. n - first \in 1..k /\ first + (n - first) = n
    BY <1>1
  <2>2. QED
    BY <1>1, <1>2, <2>1 DEF Events
<1>6. Current(t, log')
  <2>1. \A i \in 1..k : t[i].status = log'[t[i].event].status
    BY <1>1, <1>2
  <2>2. QED
    BY <1>1, <2>1 DEF Current
<1>7. Broadcasts(t, log, log')
  <2>1. Len(log) <= Len(log') /\ Len(log) = first
    BY <1>1 DEF first
  <2>2. QED
    BY <1>1, <1>4, <1>5, <1>6, <2>1 DEF Broadcasts
<1>8. QED
  BY <1>1, <1>3, <1>7, BroadcastSockets

LEMMA LastChunkSockets ==
  ASSUME TypeOK, TypeOK', Sockets, NEW c \in Call, LastChunk(c)
  PROVE  Sockets'
<1>1. UNCHANGED <<subs, history, shown, since, overtaken>>
  BY DEF LastChunk
<1>2. PICK status \in {"completed", "failed"} : record_complete(c, status)
  BY DEF LastChunk
<1>3. CASE UNCHANGED <<log, pending, live>>
  BY <1>1, <1>3, SocketQuiet DEF Sockets
<1>4. CASE ~UNCHANGED <<log, pending, live>>
  <2> DEFINE n == Awaited(c)
             x == [event |-> n, status |-> status]
             t == <<x>>
  <2>1. /\ n \in 1..Len(log) /\ Len(log') = Len(log)
        /\ \A k \in 1..Len(log) : log'[k].status = IF k = n THEN status ELSE log[k].status
        /\ live' = [w \in Socket |-> IF w \in subs THEN live[w] \o t ELSE live[w]]
    BY <1>2, <1>4, CompleteEffect
  <2>2. Len(log) \in Nat
    BY SocketTyped, LenProperties DEF TypeOK
  <2>3. x \in Notice /\ x.event = n /\ x.status = status
    BY <2>1, <2>2 DEF Notice, Status
  <2> HIDE DEF n, x
  <2>4. t \in Seq(Notice) /\ Len(t) = 1 /\ t[1] = x
    BY <2>3
  <2>5. Events(t) = {n}
    BY <2>3, <2>4 DEF Events
  <2>6. Current(t, log')
    <3>1. \A i \in 1..Len(t) : i = 1
      BY <2>4
    <3>2. t[1].status = log'[t[1].event].status
      BY <2>1, <2>3, <2>4
    <3>3. QED
      BY <3>1, <3>2 DEF Current
  <2> HIDE DEF t
  <2>7. Broadcasts(t, log, log')
    BY <2>1, <2>2, <2>5, <2>6 DEF Broadcasts
  <2>8. QED
    BY <1>1, <2>1, <2>4, <2>7, BroadcastSockets
<1>5. QED
  BY <1>3, <1>4

LEMMA SocketStep == TypeOK /\ TypeOK' /\ Sockets /\ [Next]_vars => Sockets'
<1> SUFFICES ASSUME TypeOK, TypeOK', Sockets, [Next]_vars PROVE Sockets'
  OBVIOUS
<1>1. CASE UNCHANGED <<log, sockVars>>
  <2>1. UNCHANGED <<log, subs, history, live, shown, since, overtaken>>
    BY <1>1 DEF sockVars
  <2>2. QED
    BY <2>1, SocketQuiet DEF Sockets
<1>2. ASSUME NEW c \in Call, Start(c) \/ FirstChunk(c) \/ Drop(c) PROVE Sockets'
  BY <1>1, <1>2 DEF Start, FirstChunk, Drop
<1>3. ASSUME NEW c \in Call, Receive(c) PROVE Sockets'
  BY <1>3, ReceiveSockets
<1>4. ASSUME NEW c \in Call, LastChunk(c) PROVE Sockets'
  BY <1>4, LastChunkSockets
<1>5. ASSUME NEW w \in Socket, Connect(w) PROVE Sockets'
  BY <1>5, ConnectSockets
<1>6. ASSUME NEW w \in Socket, SendHistory(w) PROVE Sockets'
  BY <1>6, SendHistorySockets
<1>7. ASSUME NEW w \in Socket, SendLive(w) PROVE Sockets'
  BY <1>7, SendLiveSockets
<1>8. CASE Overview \/ ScanEnds \/ ScanFails \/ UNCHANGED vars
  BY <1>1, <1>8, OverviewTypes DEF callVars
<1>9. QED
  BY <1>2, <1>3, <1>4, <1>5, <1>6, <1>7, <1>8 DEF Next

-----------------------------------------------------------------------------
(* The theorems. *)

LEMMA Inductive == Spec => [](TypeOK /\ CallInv /\ Sockets)
<1>1. Init => TypeOK /\ CallInv /\ Sockets
  BY InitTypes, InitCallInv, InitSockets
<1>2. TypeOK /\ CallInv /\ Sockets /\ [Next]_vars => (TypeOK /\ CallInv /\ Sockets)'
  BY TypesStep, CallStep, SocketStep
<1>3. QED
  BY <1>1, <1>2, PTL DEF Spec

\* Every variable has its type: the pending ids find recorded events, and what is
\* sent to a browser, or shown by it, is notices of events.
THEOREM TypeCorrect == Spec => []TypeOK
BY Inductive, PTL

\* As long as no two calls get mixed up, the event of a call ends with the call, and
\* with no other: what EventEndsWithItsCall says, for any number of calls and ids.
THEOREM EventsEndWithTheirCalls == Spec => []EventEndsWithItsCall
<1>1. CallInv => EventEndsWithItsCall
  BY DEF CallInv, Apart, Ends, EventEndsWithItsCall
<1>2. QED
  BY <1>1, Inductive, PTL

\* A browser that has received all that was sent to it shows each event since it
\* connected, or is full; each once, with its status, but for events of its history
\* that a broadcast came before.
THEOREM BrowsersUpToDate == Spec => []BrowserUpToDate
<1>1. TypeOK /\ Sockets => BrowserUpToDate
  <2> SUFFICES ASSUME TypeOK, Sockets, NEW w \in subs, history[w] = << >>, live[w] = << >>
               PROVE  /\ \A i, j \in 1..Len(shown[w]) :
                           shown[w][i].event = shown[w][j].event => i = j
                      /\ \A n \in (since[w] + 1)..Len(log) :
                           \/ Len(shown[w]) = KeepLast
                           \/ \E i \in 1..Len(shown[w]) : shown[w][i].event = n
                      /\ \A i \in 1..Len(shown[w]) : shown[w][i].event \notin overtaken[w] =>
                           shown[w][i].status = log[shown[w][i].event].status
    BY DEF BrowserUpToDate
  <2>1. Fits(<< >>, << >>, shown[w], overtaken[w], since[w], log)
    BY DEF Sockets, SocketOK, TypeOK
  <2>2. Distinct(shown[w])
    BY <2>1 DEF Fits
  <2>3. \A n \in (since[w] + 1)..Len(log) : n \in Events(shown[w]) \/ Len(shown[w]) = KeepLast
    BY <2>1, NoNotices DEF Fits
  <2>4. \A x \in Elements(shown[w]) :
          x.event \notin overtaken[w] => x.status = log[x.event].status
    BY <2>1, NoNotices DEF Fits
  <2>5. QED
    BY <2>2, <2>3, <2>4 DEF Distinct, Events, Elements
<1>2. QED
  BY <1>1, Inductive, PTL
===============================================================================
