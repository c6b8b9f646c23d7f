--------------------------------- MODULE Views ---------------------------------
(***************************************************************************)
(* The tools that the Web UI pages through a database with: hex_view,      *)
(* linear_view and overview_scan of core/webview/handlers.py.              *)
(*                                                                         *)
(* A database has segments, and in them items (code or data) that begin at *)
(* heads; the mapped bytes of no item are unexplored.  next_head and       *)
(* prev_head are IDA's: they find heads only, across segments.             *)
(*                                                                         *)
(* A while loop of the code is its turn, a function on the loop's          *)
(* variables, iterated; a loop that is over turns no more.                 *)
(***************************************************************************)
EXTENDS Integers, Sequences

CONSTANTS
  MaxAddr,   \* bound on the addresses
  Row,       \* bytes in a row of the hex view
  Run        \* unexplored bytes of one value that make a single line

VARIABLES
  segments,  \* sequence of [first, end], ascending
  items,     \* set of [at, size, kind]
  funcs      \* the heads where a function begins

image == <<segments, items, funcs>>

Kind == {"code", "data"}

\* A database: segments ascend, items lie in one segment and apart from each other.
WellFormed(segs, its, fs) ==
  /\ segs \in Seq([first : Nat, end : Nat]) /\ segs # << >>
  /\ \A i \in 1..Len(segs) : segs[i].first < segs[i].end /\ segs[i].end <= MaxAddr
  /\ \A i, j \in 1..Len(segs) : i < j => segs[i].end <= segs[j].first
  /\ its \subseteq [at : Nat, size : Nat \ {0}, kind : Kind]
  /\ \A t \in its : \E i \in 1..Len(segs) :
       segs[i].first <= t.at /\ t.at + t.size <= segs[i].end
  /\ \A t, u \in its : t # u => t.at + t.size <= u.at \/ u.at + u.size <= t.at
  /\ fs \subseteq {t.at : t \in {u \in its : u.kind = "code"}}

Address == 0..MaxAddr
BADADDR == -1

ASSUME ViewAssumption == MaxAddr \in Nat /\ Row \in Nat \ {0} /\ Run \in Nat \ {0}

\* The variables of a loop after n turns.
Loop(turn, from) == LET at[n \in Nat] == IF n = 0 THEN from ELSE turn[at[n - 1]] IN at

\* As many as any loop below takes.
Turns == 2 * (MaxAddr + Row) + 1

-----------------------------------------------------------------------------
(* IDA. *)

min_ea == segments[1].first
max_ea == segments[Len(segments)].end

in_segment(addr) ==
  \E i \in 1..Len(segments) : segments[i].first <= addr /\ addr < segments[i].end

is_head(addr) == \E t \in items : t.at = addr
Item(addr)    == CHOOSE t \in items : t.at = addr

Least(S)    == IF S = {} THEN BADADDR ELSE CHOOSE x \in S : \A y \in S : x <= y
Greatest(S) == IF S = {} THEN BADADDR ELSE CHOOSE x \in S : \A y \in S : y <= x

next_head(addr, limit) == Least({t.at : t \in {u \in items : addr < u.at /\ u.at < limit}})
prev_head(addr, limit) == Greatest({t.at : t \in {u \in items : limit <= u.at /\ u.at < addr}})

get_next_seg(addr) ==
  Least({segments[i].first : i \in {j \in 1..Len(segments) : segments[j].first > addr}})
get_prev_seg(addr) ==
  Greatest({segments[i].first : i \in {j \in 1..Len(segments) : segments[j].end <= addr}})
EndOf(first) == segments[CHOOSE i \in 1..Len(segments) : segments[i].first = first].end

-----------------------------------------------------------------------------
(* hex_view *)

\* addr & ~0xF
Align(addr) == (addr \div Row) * Row

\* The next mapped address, addr itself if it is mapped.
next_seg_start(addr) == IF in_segment(addr) THEN addr ELSE get_next_seg(addr)

\* A row of the segment before addr: the last one if the segment ends with a row.
prev_seg_addr(addr) ==
  IF in_segment(addr) THEN addr
  ELSE IF get_prev_seg(addr) = BADADDR THEN BADADDR
  ELSE Align(EndOf(get_prev_seg(addr)) - Row)

\* Faulty variant: the scan resumes at the first full row of the next segment.
SkipForward_FullRow(next) == IF Align(next) = next THEN next ELSE Align(next) + Row

\* Where the scan resumes after a gap: at the row, or at an odd segment's start.
SkipForward(next) == IF in_segment(Align(next)) THEN Align(next) ELSE next

Line(addr, what, size) == [addr |-> addr, what |-> what, size |-> size]
Lines == [addr : Int, what : {"row", "header", "item", "unknown"}, size : Nat]

\* The variables of a loop that lists lines: where it is, how many are still asked for.
Listing == [cur : Int, left : Nat, lines : Seq(Lines)]
Listed(turn, from, count) == Loop(turn, [cur |-> from, left |-> count, lines |-> << >>])[Turns]

HexForward ==
  [s \in Listing |->
     IF s.left = 0 \/ s.cur >= max_ea \/ next_seg_start(s.cur) = BADADDR THEN s
     ELSE IF in_segment(s.cur)
     THEN [cur   |-> s.cur + Row, left |-> s.left - 1,
           lines |-> s.lines \o <<Line(s.cur, "row", Row)>>]
     ELSE [s EXCEPT !.cur = SkipForward(next_seg_start(@))]]

HexBackward ==
  [s \in Listing |->
     IF s.left = 0 \/ s.cur < min_ea \/ prev_seg_addr(s.cur) = BADADDR THEN s
     ELSE IF in_segment(s.cur)
     THEN [cur   |-> s.cur - Row, left |-> s.left - 1,
           lines |-> <<Line(s.cur, "row", Row)>> \o s.lines]
     ELSE [s EXCEPT !.cur = prev_seg_addr(@)]]

hex_view(addr, count, direction) ==
  IF direction = "backward"
  THEN LET s == Listed(HexBackward, Align(addr), count)
       IN [lines |-> s.lines, has_more |-> s.cur >= min_ea /\ prev_seg_addr(s.cur) # BADADDR]
  ELSE LET s == Listed(HexForward, Align(addr), count)
       IN [lines |-> s.lines, has_more |-> s.cur < max_ea /\ next_seg_start(s.cur) # BADADDR]

-----------------------------------------------------------------------------
(* linear_view *)

\* _emit_func_header's lines, as one.
Header(ea) == IF ea \in funcs THEN <<Line(ea, "header", 1)>> ELSE << >>

\* Of unexplored bytes that all have one value, up to the next head: where they end.
\* Reading past a segment gives a value of its own.
RunEnd(ea) == Least({a \in ea + 1..MaxAddr + 1 : is_head(a) \/ ~in_segment(a)})

\* An item; a long run of unexplored bytes, or else its first byte.
_emit_line(ea) ==
  IF is_head(ea) THEN Line(ea, "item", Item(ea).size)
  ELSE Line(ea, "unknown", IF RunEnd(ea) - ea >= Run THEN RunEnd(ea) - ea ELSE 1)

_next_head_skip_gaps(ea) ==
  LET nxt == next_head(ea, MaxAddr + 1) IN IF nxt # BADADDR THEN nxt ELSE get_next_seg(ea)

\* Before the first head: the first address of the previous segment, if ea begins one.
_prev_head_skip_gaps(ea) ==
  LET prev == prev_head(ea, 0)
      pseg == get_prev_seg(ea)
      begins == \E i \in 1..Len(segments) : segments[i].first = ea
  IN IF prev # BADADDR THEN prev
     ELSE IF (begins \/ ~in_segment(ea)) /\ pseg # BADADDR
     THEN pseg  \* no head in it
     ELSE BADADDR

\* Faulty variant: after an item the next head is looked for from its end, not at it.
After_Skips(ea, size) ==
  IF size <= 1 THEN _next_head_skip_gaps(ea) ELSE _next_head_skip_gaps(ea + size)

\* The address after a line.
After(ea, size) == IF size <= 1 THEN _next_head_skip_gaps(ea) ELSE ea + size

\* The lines at an address.
LinesAt(ea) == Header(ea) \o <<_emit_line(ea)>>

LinearForward ==
  [s \in Listing |->
     IF s.left = 0 \/ s.cur = BADADDR \/ next_seg_start(s.cur) = BADADDR THEN s
     ELSE IF in_segment(s.cur)
     THEN [cur   |-> After(s.cur, _emit_line(s.cur).size), left |-> s.left - 1,
           lines |-> s.lines \o LinesAt(s.cur)]
     ELSE [s EXCEPT !.cur = get_next_seg(@)]]

LinearBackward ==
  [s \in Listing |->
     IF s.left = 0 \/ s.cur = BADADDR THEN s
     ELSE [cur   |-> _prev_head_skip_gaps(s.cur), left |-> s.left - 1,
           lines |-> LinesAt(s.cur) \o s.lines]]

linear_view(addr, count, direction) ==
  IF direction = "backward"
  THEN LET s == Listed(LinearBackward, IF is_head(addr) THEN addr ELSE prev_head(addr, 0), count)
       IN [lines |-> s.lines, has_more |-> s.cur # BADADDR]
  ELSE LET s == Listed(LinearForward,
                       IF is_head(addr) THEN addr ELSE next_head(addr, MaxAddr + 1), count)
       IN [lines |-> s.lines, has_more |-> s.cur # BADADDR /\ next_seg_start(s.cur) # BADADDR]

-----------------------------------------------------------------------------
(* overview_scan *)

TypeAt(ea) == IF is_head(ea) THEN Item(ea).kind ELSE "unknown"

Region(start, end, type) == [start |-> start, end |-> end, type |-> type]
Regions == [start : Int, end : Int, type : Kind \cup {"unknown"}]

\* The variables of the scan of a segment; cur_type is None ("none") at first.
Scanning ==
  [ea : Int, type : Kind \cup {"unknown", "none"}, start : Int, regions : Seq(Regions)]

\* Faulty variant: a new region begins where the last one did.
ScanTurn_KeepsStart(end) ==
  [s \in Scanning |->
     IF s.ea >= end THEN s
     ELSE LET nxt == next_head(s.ea, end)
          IN [ea      |-> IF nxt = BADADDR THEN end ELSE nxt,
              type    |-> TypeAt(s.ea),
              start   |-> s.start,
              regions |-> IF s.type \in {"none", TypeAt(s.ea)} THEN s.regions
                          ELSE s.regions \o <<Region(s.start, s.ea, s.type)>>]]

\* A region ends where another type begins; on to the next head.
ScanTurn(end) ==
  [s \in Scanning |->
     IF s.ea >= end THEN s
     ELSE LET nxt == next_head(s.ea, end)
          IN [ea      |-> IF nxt = BADADDR THEN end ELSE nxt,
              type    |-> TypeAt(s.ea),
              start   |-> IF s.type = TypeAt(s.ea) THEN s.start ELSE s.ea,
              regions |-> IF s.type \in {"none", TypeAt(s.ea)} THEN s.regions
                          ELSE s.regions \o <<Region(s.start, s.ea, s.type)>>]]

\* A segment's regions: the last one ends with it.
ScanSegment(first, end) ==
  LET s == Loop(ScanTurn(end), [ea |-> first, type |-> "none", start |-> first,
                                regions |-> << >>])[Turns]
  IN s.regions \o <<Region(s.start, end, s.type)>>

\* The regions, segment by segment.
overview_scan == [i \in 1..Len(segments) |-> ScanSegment(segments[i].first, segments[i].end)]
=============================================================================
