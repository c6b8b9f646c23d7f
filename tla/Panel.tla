--------------------------------- MODULE Panel ---------------------------------
(***************************************************************************)
(* The hex and the linear view of the browser, which put the worker's      *)
(* pages together while the user scrolls and jumps:                        *)
(* web-ui/src/panels/HexView.tsx and LinearView.tsx, the same code but for *)
(* the tool they call and the address after the last line.                 *)
(*                                                                         *)
(* The panel's guard against concurrent requests is loadingRef, which      *)
(* jumpTo sets whatever is in flight; answers arrive in any order.         *)
(***************************************************************************)
EXTENDS Views

CONSTANTS
  Images,    \* databases: [segments, items, funcs]
  Entered,   \* the addresses the user asks for
  Chunk,     \* CHUNK_ROWS, CHUNK_SIZE
  MaxLines,  \* MAX_ROWS, MAX_LINES: the panel starts anew when it holds more
  MaxCalls   \* bound on the panel's calls

ASSUME PanelAssumption ==
  /\ Entered \subseteq Address /\ Chunk \in Nat \ {0, 1}
  /\ MaxLines \in Nat /\ MaxCalls \in Nat
  /\ \A d \in Images : WellFormed(d.segments, d.items, d.funcs)

VARIABLES
  view,      \* which panel: "hex" or "linear"
  lines,     \* what it shows,
  moreTop, moreBottom,  \* what it knows of the rest,
  loading,   \* loadingRef
  calls,     \* calls in flight: [kind, addr, step]
  made,      \* number of calls made
  raced      \* history: a jump was made while another call was in flight

shown == <<lines, moreTop, moreBottom>>
vars  == <<image, view, shown, loading, calls, made, raced>>

Init ==
  /\ \E d \in Images : segments = d.segments /\ items = d.items /\ funcs = d.funcs
  /\ view \in {"hex", "linear"}
  /\ lines = << >> /\ moreTop = TRUE /\ moreBottom = TRUE
  /\ loading = FALSE /\ calls = {} /\ made = 0 /\ raced = FALSE

Page(addr, count, direction) ==
  IF view = "hex" THEN hex_view(addr, count, direction) ELSE linear_view(addr, count, direction)

\* The lines of a page at addresses that `old` does not have.
Fresh(page, old) ==
  LET filter ==
        [s \in [next : Nat, kept : Seq(Lines)] |->
           LET l == page.lines[s.next] IN
           [next |-> s.next + 1,
            kept |-> IF \E i \in 1..Len(old) : old[i].addr = l.addr THEN s.kept
                     ELSE s.kept \o <<l>>]]
  IN Loop(filter, [next |-> 1, kept |-> << >>])[Len(page.lines)].kept

Call(kind, addr) == [kind |-> kind, addr |-> addr, step |-> 1]

\* A call is made, and loadingRef set.
Begin(c) ==
  /\ made < MaxCalls /\ c \notin calls
  /\ made'    = made + 1
  /\ calls'   = calls \cup {c}
  /\ loading' = TRUE
  /\ UNCHANGED <<image, view>>

\* jumpTo forgets what is shown and in flight.
jumpTo(addr) ==
  /\ Begin(Call("jump", addr))
  /\ lines' = << >> /\ moreTop' = TRUE /\ moreBottom' = TRUE
  /\ raced' = (raced \/ calls # {})

\* The user enters an address, or follows one in another panel.
Jump == \E addr \in Entered : jumpTo(addr)

top    == lines[1]
bottom == lines[Len(lines)]

\* handleScroll near an end of the panel.
Scroll(kind, addr) ==
  /\ ~loading /\ Len(lines) <= MaxLines
  /\ Begin(Call(kind, addr))
  /\ UNCHANGED <<shown, raced>>

ScrollDown == lines # << >> /\ moreBottom /\ Scroll("forward", bottom.addr + bottom.size)
ScrollUp   == lines # << >> /\ moreTop /\ Scroll("backward", top.addr)

\* A panel with too many lines starts anew around its middle.
Collect == ~loading /\ Len(lines) > MaxLines /\ jumpTo(lines[Len(lines) \div 2 + 1].addr)

\* loadForward's page comes behind.
ForwardArrives(c) ==
  /\ c.kind = "forward"
  /\ LET page == Page(c.addr, Chunk, "forward") IN
       /\ lines'      = lines \o Fresh(page, lines)
       /\ moreBottom' = page.has_more
  /\ UNCHANGED moreTop

\* Faulty variant: the page is put in front as it is.
BackwardArrives_NoFilter(c) ==
  /\ c.kind = "backward"
  /\ LET page == Page(c.addr, Chunk, "backward") IN
       /\ lines'   = page.lines \o lines
       /\ moreTop' = page.has_more
  /\ UNCHANGED moreBottom

\* loadBackward's page, which has the first line again, comes in front.
BackwardArrives(c) ==
  /\ c.kind = "backward"
  /\ LET page == Page(c.addr, Chunk, "backward") IN
       /\ lines'   = Fresh(page, lines) \o lines
       /\ moreTop' = page.has_more
  /\ UNCHANGED moreBottom

\* jumpTo's second page has come: both are shown.
JumpArrives(c) ==
  /\ c.kind = "jump" /\ c.step = 2
  /\ LET fwd == Page(c.addr, Chunk, "forward")
         bwd == Page(c.addr, Chunk \div 2, "backward")
     IN /\ lines'      = Fresh(bwd, fwd.lines) \o fwd.lines
        /\ moreTop'    = bwd.has_more
        /\ moreBottom' = fwd.has_more

\* jumpTo's first page has come; it asks for the second.
JumpHalfway(c) ==
  /\ c.kind = "jump" /\ c.step = 1
  /\ calls' = (calls \ {c}) \cup {[c EXCEPT !.step = 2]}
  /\ UNCHANGED <<image, view, shown, loading, made, raced>>

\* A call ends: with its page, or with an error that is ignored (for a busy worker
\* the answer is 202, a page without lines).
Ends(c) ==
  /\ ForwardArrives(c) \/ BackwardArrives(c) \/ JumpArrives(c) \/ UNCHANGED shown
  /\ calls'   = calls \ {c}
  /\ loading' = FALSE
  /\ UNCHANGED <<image, view, made, raced>>

Next ==
  \/ Jump \/ ScrollDown \/ ScrollUp \/ Collect
  \/ \E c \in calls : JumpHalfway(c) \/ Ends(c)

Spec == Init /\ [][Next]_vars

-----------------------------------------------------------------------------
(* Properties. *)

\* The variables have their types.
TypeOK ==
  /\ WellFormed(segments, items, funcs) /\ view \in {"hex", "linear"}
  /\ lines \in Seq(Lines)
  /\ moreTop \in BOOLEAN /\ moreBottom \in BOOLEAN
  /\ loading \in BOOLEAN /\ raced \in BOOLEAN
  /\ calls \subseteq [kind : {"jump", "forward", "backward"}, addr : Int, step : 1..2]
  /\ made \in 0..MaxCalls

\* Segments that begin and end with a row.
Regular == \A i \in 1..Len(segments) :
  segments[i].first % Row = 0 /\ segments[i].end % Row = 0

\* Every mapped byte belongs to an item.
Explored == \A b \in Address : in_segment(b) => \E t \in items : t.at <= b /\ b < t.at + t.size

\* What there is to see in the whole database.
Rows    == {Line(b, "row", Row) : b \in {a \in Address : a % Row = 0 /\ in_segment(a)}}
Items   == {_emit_line(t.at) : t \in items}
Headers == {Line(f, "header", 1) : f \in funcs}
All     == IF view = "hex" THEN Rows ELSE Items \cup Headers

\* Lines are in the order of their addresses; a function's header goes before it.
Before(l, m) ==
  l.addr < m.addr \/ (l.addr = m.addr /\ l.what = "header" /\ m.what # "header")

InOrder(s) == \A i, j \in 1..Len(s) : i < j => Before(s[i], s[j])
Shown(s)   == {s[i] : i \in 1..Len(s)}

\* From what is shown first to what is shown last.
Between == {l \in All : ~Before(l, top) /\ ~Before(bottom, l)}

\* However pages were put together, the panel shows one stretch of the database
\* without hole or repetition, and knows whether there is more on either side: as
\* long as no jump was made while a call was in flight, for segments made of rows
\* and, in the linear view, for a database that is explored.
PanelIsAStretch ==
  ~raced /\ lines # << >> /\ (view = "hex" => Regular) /\ (view = "linear" => Explored) =>
    /\ InOrder(lines) /\ Shown(lines) = Between
    /\ moreTop    = \E l \in All : Before(l, top)
    /\ moreBottom = \E l \in All : Before(bottom, l)

\* Whatever the segments and whatever is unexplored, the linear view loses no head
\* between its first line and its last.
NoHeadIsLost ==
  view = "linear" /\ ~raced /\ lines # << >> =>
    InOrder(lines) /\ {l \in Shown(lines) : l.what # "unknown"} = Between

\* Forward, hex_view loses nothing whatever the segments: the rows of a page
\* ascend, hold every mapped byte from its address to its end, and has_more is
\* false only if no byte follows.
ForwardCovers ==
  made = 0 => \A addr \in Address, count \in 1..Chunk :
    LET page == hex_view(addr, count, "forward")
        rows == page.lines
        end  == IF page.has_more THEN rows[Len(rows)].addr + Row ELSE max_ea
    IN /\ InOrder(rows)
       /\ \A b \in Address : Align(addr) <= b /\ b < end /\ in_segment(b) =>
            \E r \in Shown(rows) : r.addr <= b /\ b < r.addr + Row

\* overview_scan's regions tile each segment, two that touch in it differ, and every
\* head lies in one of its kind.
OverviewTiles ==
  made = 0 => \A i \in 1..Len(segments) :
    LET rs == overview_scan[i] IN
    /\ rs # << >> /\ rs[1].start = segments[i].first /\ rs[Len(rs)].end = segments[i].end
    /\ \A k \in 1..Len(rs) : rs[k].start < rs[k].end
    /\ \A k \in 2..Len(rs) : rs[k].start = rs[k - 1].end /\ rs[k].type # rs[k - 1].type
    /\ \A t \in items : segments[i].first <= t.at /\ t.at < segments[i].end =>
         \E k \in 1..Len(rs) : rs[k].start <= t.at /\ t.at < rs[k].end /\ rs[k].type = t.kind

\* What prev_seg_addr says of itself, and the code does not do for a segment that
\* ends within a row: backward, hex_view loses nothing either.
BackwardCovers ==
  made = 0 => \A addr \in Address, count \in 1..Chunk :
    LET rows  == hex_view(addr, count, "backward").lines
        start == IF rows = << >> THEN min_ea ELSE rows[1].addr
    IN \A b \in Address : start <= b /\ b <= Align(addr) /\ in_segment(b) =>
         \E r \in Shown(rows) : r.addr <= b /\ b < r.addr + Row
=============================================================================
