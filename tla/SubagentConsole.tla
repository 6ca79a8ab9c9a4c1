-------------------------- MODULE SubagentConsole --------------------------
(***************************************************************************)
(* The full-screen console over the transcripts of the child agents:       *)
(* ChildTranscriptStore (what the children said, bounded, the oldest entry *)
(* dropped first, streamed text announced at most once per throttle        *)
(* interval) and SubagentConsoleComponent (which child is shown, where each *)
(* transcript is scrolled to, and a cache of laid-out entries).            *)
(*                                                                         *)
(* A line of a transcript is named by the entry it belongs to, its number  *)
(* in it, and what its layout depends on: the width and whether a tool's   *)
(* duration is known.  Colours, wording and cell padding are left out.     *)
(***************************************************************************)
EXTENDS Naturals, Sequences, FiniteSets

CONSTANTS Children,    \* the rows of the dashboard, in order: 1..n
          Talkers,     \* those of them that report anything: a bound
          Heights,     \* numbers of body rows a terminal may have
          MaxBytes,    \* MAX_CHILD_TRANSCRIPT_BYTES, in units
          MaxEntries,  \* MAX_CHILD_ENTRIES
          MaxTail,     \* the cap of the text being streamed, in lines
          MaxEvents,   \* bound on what the children report altogether
          MaxResizes   \* bound on changes of the terminal's size

VARIABLES transcript,  \* child -> [entries, tail, turn, evicted]
          timer,       \* throttleTimer is set
          open,        \* a console is open and subscribed to the store
          terminal,    \* [width, height], as the terminal has it now
          view,        \* the component: [selected, scroll, counts, width, height]
          cache,       \* laid-out entries, and the laid-out live tail
          dirty,       \* a render was requested
          screen,      \* the lines of the last render and whose they are
          seen,        \* child -> the line its last render began with; 0 once it follows,
                       \* is scrolled, or loses or changes a line up to there
          events,      \* what the children have reported so far
          resizes      \* changes of the terminal's size so far

consoleVars == <<transcript, timer, open, terminal, view, cache, dirty, screen,
                 seen, events, resizes>>

Widths == {"narrow", "wide"}
Offsets == 0..(4 * MaxBytes + 4)
NoLive == [child |-> 0]
Unseen == [c \in Children |-> 0]
NoScroll == [offset |-> 0, follow |-> TRUE, set |-> FALSE]

Least(a, b) == IF a < b THEN a ELSE b
Most(a, b) == IF a > b THEN a ELSE b
Less(a, b) == IF a > b THEN a - b ELSE 0

\* What the first 0, 1, ... of some numbers add up to.
Sums(ns) ==
  LET Upto[i \in 0..Len(ns)] == IF i = 0 THEN 0 ELSE Upto[i - 1] + ns[i]
  IN Upto

-----------------------------------------------------------------------------
(* The transcripts.                                                        *)

\* A tail is [from, size]: the lines the turn has streamed, but for the first
\* from of them, which its cap has cost it.
EmptyTail == [from |-> 0, size |-> 0]
NoTail(t) == t.tail.size = 0

EntryBytes(e) == IF e.kind = "text" THEN e.size ELSE 1

\* The bytes of a child's entries and of its live tail.
TotalBytes(t) ==
  Sums([i \in 1..Len(t.entries) |-> EntryBytes(t.entries[i])])[Len(t.entries)] + t.tail.size

Over(t) == TotalBytes(t) > MaxBytes \/ Len(t.entries) > MaxEntries

\* The oldest entries go until the rest is within the limits; the tail stays.
EnforceLimits(t) ==
  LET Without(k) == [t EXCEPT !.entries = SubSeq(t.entries, k + 1, Len(t.entries)),
                              !.evicted = t.evicted \/ k > 0]
      enough == {k \in 0..Len(t.entries) :
                   k = Len(t.entries) \/ ~Over(Without(k))}
  IN Without(CHOOSE k \in enough : \A j \in enough : k <= j)

AddEntry(t, e) == EnforceLimits([t EXCEPT !.entries = Append(@, e)])

-----------------------------------------------------------------------------
(* Layout.                                                                 *)

\* Text wraps into as many lines again on a narrow terminal.
Wrapped(size, width) == IF width = "narrow" THEN 2 * size ELSE size

\* The lines of a turn's text, but for the first from of them.
FormatText(turn, from, size, width) ==
  [k \in 1..Wrapped(size, width) |-> <<"text", turn, Wrapped(from, width) + k, width>>]

\* The lines of an entry: a note, a tool and the end of a turn take one.
FormatTranscriptEntry(e, width) ==
  IF e.kind = "text" THEN FormatText(e.turn, 0, e.size, width)
  ELSE <<<<e.kind, e.id, e.timed>>>>

FormatTail(t, width) == FormatText(t.turn, t.tail.from, t.tail.size, width)

Concat(ss) ==
  LET Upto[i \in 0..Len(ss)] == IF i = 0 THEN <<>> ELSE Upto[i - 1] \o ss[i]
  IN Upto[Len(ss)]

Notice(t) == IF t.evicted THEN <<<<"evicted">>>> ELSE <<>>

\* A pane is never without a line.
OrPlaceholder(lines) ==
  IF lines = <<>> THEN <<<<"empty">>>> ELSE lines

\* The lines as they are without any cache.
ComputeTranscriptLines(t, width) ==
  OrPlaceholder(Notice(t)
    \o Concat([i \in 1..Len(t.entries) |->
                 FormatTranscriptEntry(t.entries[i], width)])
    \o FormatTail(t, width))

\* A cached entry is used again while the width and the tool's duration are
\* those it was laid out with.
CachedEntry(c, child, e, width) ==
  LET hits == {x \in c.entries : /\ x.child = child
                                 /\ x.id = e.id
                                 /\ x.width = width
                                 /\ x.timed = e.timed}
  IN IF hits # {} THEN CHOOSE x \in hits : TRUE
     ELSE [child |-> child, id |-> e.id, width |-> width, timed |-> e.timed,
           lines |-> FormatTranscriptEntry(e, width)]

\* The cached tail likewise, while child, text and width are the same.
LiveKey(child, t, width) ==
  [child |-> child, turn |-> t.turn, tail |-> t.tail, width |-> width]

CachedTail(c, child, t, width) ==
  IF c.live = LiveKey(child, t, width) THEN c.liveLines ELSE FormatTail(t, width)

\* What a use of the cache shows, and the cache it leaves: the entries are held
\* weakly, so those of the transcript are the ones that count.
CachedLines(c, child, t, width) ==
  OrPlaceholder(Notice(t)
    \o Concat([i \in 1..Len(t.entries) |->
                 CachedEntry(c, child, t.entries[i], width).lines])
    \o IF NoTail(t) THEN <<>> ELSE CachedTail(c, child, t, width))

CacheAfter(c, child, t, width) ==
  [entries   |-> {x \in c.entries : x.child # child}
                   \cup {CachedEntry(c, child, t.entries[i], width) : i \in DOMAIN t.entries},
   live      |-> IF NoTail(t) THEN NoLive ELSE LiveKey(child, t, width),
   liveLines |-> IF NoTail(t) THEN <<>> ELSE CachedTail(c, child, t, width)]

NoCache == [entries |-> {}, live |-> NoLive, liveLines |-> <<>>]

-----------------------------------------------------------------------------
(* Windows.                                                                *)

\* The body rows left by three lines of chrome, in either layout.
BodyHeight(height) == Most(1, Less(Most(4, height), 3))

\* Where a window of that many rows begins, counted from 0.
WindowStart(count, scroll, body) ==
  IF scroll.follow THEN Less(count, body)
  ELSE Less(Less(count, body), Least(scroll.offset, Less(count, body)))

WindowBodyLines(lines, scroll, body) ==
  LET start == WindowStart(Len(lines), scroll, body)
  IN SubSeq(lines, start + 1, Least(Len(lines), start + body))

\* The sidebar's rows around the selected child, blocks being the numbers of
\* lines of the children: [from, to], counted from 1.
WindowSidebarBlocks(blocks, selected, body) ==
  LET total == Sums(blocks)[Len(blocks)]
      first == Sums(blocks)[selected - 1]
      last  == Sums(blocks)[selected]
      low   == Least(first, Less(total, body))
      start == IF body < blocks[selected] THEN first
               ELSE IF last > low + body THEN last - body
               ELSE low
  IN IF total <= body THEN [from |-> 1, to |-> total]
     ELSE [from |-> start + 1, to |-> start + body]

-----------------------------------------------------------------------------
(* The component.                                                          *)

Lines(v, tr, child) == CachedLines(cache, child, tr[child], v.width)

\* A child's scroll position exists from the first key that needs it.
ScrollFor(v, child) == [v EXCEPT !.scroll[child].set = TRUE]

\* What grew below a viewport that does not follow is added to its distance
\* from the bottom.
AnchorScrolledViewport(v, tr, child) ==
  LET next  == Len(Lines(v, tr, child))
      known == v.counts[child]
      grown == IF known = 0 THEN 0 ELSE Less(next, known)
      old   == v.scroll[child]
  IN IF ~old.set THEN v
     ELSE [v EXCEPT
             !.counts[child] = next,
             !.scroll[child].offset =
                IF old.follow \/ grown = 0 THEN old.offset
                ELSE Least(Less(next, BodyHeight(v.height)), old.offset + grown)]

\* The largest distance from the bottom.
MaxScroll(v) ==
  Less(Len(Lines(v, transcript, v.selected)), BodyHeight(v.height))

FreshView == [selected |-> 1,
              scroll   |-> [c \in Children |-> NoScroll],
              counts   |-> [c \in Children |-> 0],
              width    |-> "narrow",
              height   |-> 24]

Init ==
  /\ transcript = [c \in Children |->
       [entries |-> <<>>, tail |-> EmptyTail, turn |-> 1, evicted |-> FALSE]]
  /\ timer = FALSE
  /\ open = FALSE
  /\ terminal = [width |-> "wide", height |-> CHOOSE h \in Heights : TRUE]
  /\ view = FreshView
  /\ cache = NoCache
  /\ dirty = FALSE
  /\ screen = [child |-> 0, lines |-> <<>>]
  /\ seen = Unseen
  /\ events = 0
  /\ resizes = 0

\* The listener of the store, run for every emission.
Emit(tr) ==
  IF open
  THEN /\ view' = AnchorScrolledViewport(view, tr, view.selected)
       /\ cache' = IF view.scroll[view.selected].set
                   THEN CacheAfter(cache, view.selected, tr[view.selected], view.width)
                   ELSE cache
       /\ dirty' = TRUE
  ELSE UNCHANGED <<view, cache, dirty>>

\* The first lines shown, but for children that now have fewer lines than before or
\* of which a line up to the first one shown is no longer what it was.
StillSeen(tr) ==
  [c \in Children |->
     LET old == ComputeTranscriptLines(transcript[c], view.width)
         new == ComputeTranscriptLines(tr[c], view.width)
     IN IF Len(new) < Len(old) \/ \E i \in 1..Least(seen[c], Len(old)) : new[i] # old[i]
        THEN 0 ELSE seen[c]]

\* A child reports something: its transcript becomes t.
Report(c, t) ==
  /\ events < MaxEvents
  /\ events' = events + 1
  /\ transcript' = [transcript EXCEPT ![c] = t]
  /\ seen' = StillSeen(transcript')
  /\ UNCHANGED <<open, terminal, screen, resizes>>

FlushAndEmit == timer' = FALSE /\ Emit(transcript')

Entry(kind, t, size) ==
  [id |-> 2 * events + (IF kind = "text" THEN 1 ELSE 2), kind |-> kind, turn |-> t.turn, size |-> size, timed |-> FALSE]

Note(c) ==
  /\ Report(c, AddEntry(transcript[c], Entry("note", transcript[c], 1)))
  /\ FlushAndEmit

ToolStart(c) ==
  /\ Report(c, AddEntry(transcript[c], Entry("tool", transcript[c], 1)))
  /\ FlushAndEmit

\* The end of a tool is put down to the last entry, if that is a tool under way.
ToolEnd(c) ==
  LET t == transcript[c] n == Len(t.entries) IN
  /\ n > 0
  /\ t.entries[n].kind = "tool"
  /\ ~t.entries[n].timed
  /\ Report(c, [t EXCEPT !.entries[n].timed = TRUE])
  /\ FlushAndEmit

\* Streamed text is announced by a timer, which is set only for a listener.
TextDelta(c) ==
  LET t == transcript[c]
      full == t.tail.size = MaxTail
      longer == [from |-> t.tail.from + (IF full THEN 1 ELSE 0),
                 size |-> IF full THEN MaxTail ELSE t.tail.size + 1]
  IN /\ Report(c, EnforceLimits([t EXCEPT !.tail = longer]))
     /\ timer' = (timer \/ open)
     /\ UNCHANGED <<view, cache, dirty>>

\* A turn ends: its text, if it has any, and its usage become entries.
TurnEnd(c) ==
  \E size \in {0, transcript[c].tail.from + transcript[c].tail.size} :
    LET t == transcript[c]
        said == IF size = 0 THEN t ELSE AddEntry(t, Entry("text", t, size))
        closed == AddEntry(said, Entry("turn", t, 1))
    IN /\ Report(c, [closed EXCEPT !.tail = EmptyTail, !.turn = closed.turn + 1])
       /\ FlushAndEmit

\* The throttle interval is over.
TimerFires ==
  /\ timer
  /\ timer' = FALSE
  /\ Emit(transcript)
  /\ UNCHANGED <<transcript, open, terminal, screen, seen, events, resizes>>

Store ==
  \/ TimerFires
  \/ \E c \in Talkers : \/ Note(c)
                        \/ ToolStart(c)
                        \/ ToolEnd(c)
                        \/ TextDelta(c)
                        \/ TurnEnd(c)

-----------------------------------------------------------------------------
(* The console: opened by its shortcut, closed by a key or with its run.   *)

Open ==
  /\ ~open
  /\ open' = TRUE
  /\ view' = FreshView
  /\ cache' = NoCache
  /\ dirty' = TRUE
  /\ UNCHANGED <<transcript, timer, terminal, screen, seen, events, resizes>>

\* dispose(): the component forgets what it measured and hears no more.
Close ==
  /\ open
  /\ open' = FALSE
  /\ view' = FreshView
  /\ cache' = NoCache
  /\ dirty' = FALSE
  /\ screen' = [child |-> 0, lines |-> <<>>]
  /\ seen' = Unseen
  /\ UNCHANGED <<transcript, timer, terminal, events, resizes>>

\* The next child or the one before; its viewport is anchored as it is now.
Select ==
  /\ open
  /\ \E to \in {view.selected + 1, view.selected - 1 + Cardinality(Children)} :
       LET id == ((to - 1) % Cardinality(Children)) + 1
           v  == ScrollFor([view EXCEPT !.selected = id], id)
       IN /\ view' = AnchorScrolledViewport(v, transcript, id)
          /\ cache' = CacheAfter(cache, id, transcript[id], view.width)
  /\ dirty' = TRUE
  /\ UNCHANGED <<transcript, timer, open, terminal, screen, seen, events, resizes>>

\* A key that moves the selected child's viewport, to offset and follow; only
\* those of children that report are pressed here.
Scrolled(offset, follow) ==
  /\ open
  /\ view.selected \in Talkers
  /\ view' = [view EXCEPT !.scroll[view.selected] =
                            [offset |-> offset, follow |-> follow, set |-> TRUE]]
  /\ seen' = [seen EXCEPT ![view.selected] = 0]
  /\ dirty' = TRUE
  /\ UNCHANGED <<transcript, timer, open, terminal, screen, events, resizes>>

Measured == cache' = CacheAfter(cache, view.selected, transcript[view.selected], view.width)

PageStep == Most(1, Less(BodyHeight(terminal.height), 2))

\* The wheel moves three lines, a page key a page but for two lines.
ScrollUp ==
  \E step \in {3, PageStep} :
    /\ Scrolled(Least(MaxScroll(view), view.scroll[view.selected].offset + step), FALSE)
    /\ Measured

ScrollDown ==
  \E step \in {3, PageStep} :
    LET old == view.scroll[view.selected]
        offset == Less(old.offset, step)
    IN /\ Scrolled(offset, old.follow \/ offset = 0)
       /\ UNCHANGED cache

Home == Scrolled(MaxScroll(view), FALSE) /\ Measured

End == Scrolled(0, TRUE) /\ UNCHANGED cache

ToggleFollow ==
  LET old == view.scroll[view.selected] IN
  /\ Scrolled(IF old.follow THEN old.offset ELSE 0, ~old.follow)
  /\ UNCHANGED cache

Keys == Select \/ ScrollUp \/ ScrollDown \/ Home \/ End \/ ToggleFollow

\* The terminal is resized, which renders the console again.
Resize ==
  /\ resizes < MaxResizes
  /\ \E w \in Widths, h \in Heights :
       terminal' = [width |-> w, height |-> h] /\ terminal' # terminal
  /\ resizes' = resizes + 1
  /\ dirty' = open
  /\ seen' = Unseen
  /\ UNCHANGED <<transcript, timer, open, view, cache, screen, events>>

\* A render, whether one of these asked for it or the dashboard, which ticks
\* every second and reports progress of its own.
Render ==
  LET id == view.selected
      lines == CachedLines(cache, id, transcript[id], terminal.width)
      body == BodyHeight(terminal.height)
      scroll == view.scroll[id]
  IN /\ open
     /\ dirty' = FALSE
     /\ view' = [view EXCEPT !.width = terminal.width, !.height = terminal.height,
                              !.counts[id] = Len(lines)]
     /\ cache' = CacheAfter(cache, id, transcript[id], terminal.width)
     /\ screen' = [child |-> id, lines |-> WindowBodyLines(lines, scroll, body)]
     /\ seen' = [seen EXCEPT ![id] = IF scroll.follow THEN 0
                                     ELSE WindowStart(Len(lines), scroll, body) + 1]
     /\ UNCHANGED <<transcript, timer, open, terminal, events, resizes>>

Next == Store \/ Open \/ Close \/ Keys \/ Resize \/ Render

Spec == Init /\ [][Next]_consoleVars

-----------------------------------------------------------------------------
(* Properties.                                                             *)

\* The variables hold what they are meant to; offsets stay within a transcript.
TypeOK ==
  /\ timer \in BOOLEAN /\ open \in BOOLEAN /\ dirty \in BOOLEAN
  /\ view.selected \in Children
  /\ \A c \in Children : view.scroll[c].offset \in Offsets
  /\ \A c \in Children : transcript[c].tail.size \in 0..MaxTail

\* A transcript is within its limits unless the streamed text alone exceeds them,
\* and says so when something of it is missing.
TranscriptIsBounded ==
  \A c \in Children :
    LET t == transcript[c] IN
    /\ ~Over(t) \/ t.entries = <<>>
    /\ \A i, j \in DOMAIN t.entries : i < j => t.entries[i].id < t.entries[j].id

\* What the cache shows is what a layout without it would, at any width.
LayoutIsFresh ==
  \A c \in Children, w \in Widths :
    CachedLines(cache, c, transcript[c], w) = ComputeTranscriptLines(transcript[c], w)

\* A screen that is not what a render would now show will be rendered again.
NothingIsForgotten ==
  LET id == view.selected
      lines == ComputeTranscriptLines(transcript[id], terminal.width)
      now == WindowBodyLines(lines, view.scroll[id], BodyHeight(terminal.height))
  IN open => (dirty \/ timer \/ screen = [child |-> id, lines |-> now])

\* However many lines the children's blocks have, the sidebar shows the selected
\* one, or its label where it does not fit.
SelectedIsListed ==
  \A body \in 1..5, blocks \in [1..3 -> 3..4], selected \in 1..3 :
    LET window == WindowSidebarBlocks(blocks, selected, body)
        label  == 1 + (IF selected > 1 THEN blocks[1] ELSE 0)
                    + (IF selected > 2 THEN blocks[2] ELSE 0)
        last   == label + Least(body, blocks[selected]) - 1
    IN window.from <= label /\ last <= window.to /\ window.to <= blocks[1] + blocks[2] + blocks[3]

\* A viewport that does not follow keeps its first line while the transcript grows
\* below it, whichever child was shown meanwhile.  Excepted are renders that come
\* between streamed text and its announcement: they take the new length for the
\* one that was anchored.
StaysAnchored ==
  \A c \in Children : (seen[c] # 0 /\ seen'[c] # 0 /\ ~timer) => seen'[c] = seen[c]
ViewportIsAnchored == [][StaysAnchored]_consoleVars
=============================================================================
