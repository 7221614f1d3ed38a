------------------------------ MODULE WeekZoom ------------------------------
(***************************************************************************)
(* The vertical zoom of the week view (WeekView.tsx): the height of a day, *)
(* the scroll position, and the gestures that change both.  Events arrive  *)
(* faster than React renders: what a gesture wants is kept in refs (asked, *)
(* pending) until the render that draws it.  Lengths are pixels, a zoom    *)
(* step is a factor of two, and positions are rounded down.                *)
(***************************************************************************)
EXTENDS Integers, FiniteSetsExt

CONSTANTS
  DayLength,    \* the units a time frame counts a day in
  MaxZoom,      \* MAX_ZOOM
  Margin,       \* FRAME_MARGIN
  Heights,      \* heights the visible part of the grid can have
  Frames,       \* time frames of the settings: [start, end]
  NoFrame,      \* the settings are not there yet
  Pointers,     \* heights at which a gesture's pointer can be
  Places,       \* positions the user scrolls to
  Short,        \* BOOLEAN: a short screen, on which the page scrolls first
  NoScroll, NoPinch, NoBurst, Mixed,
  MaxEvents     \* bound: events in one behaviour

VARIABLES
  height,       \* fitHeight, as measured last
  frame,        \* viewRange, as given last
  drawn,        \* what the last render drew: [fit, frame, zoom]
  asked,        \* zoomRef: the zoom the last gesture asked for
  pending,      \* pendingScroll: the place it asked for, [top, zoom]
  adjusted,     \* adjusted: the view is the user's
  top,          \* scrollTop of the container
  pinch,        \* the zoom two fingers started at
  atTop,        \* the week view has reached the top of the screen
  burst,        \* the pointer of the zoom steps since the last render
  events

vars == <<height, frame, drawn, asked, pending, adjusted, top, pinch, atTop, burst, events>>

Clamp(z) == Max({1, Min({MaxZoom, z})})

\* One step of the wheel, or of a pinch, in or out.
Steps(z) == {Clamp(z * 2), Clamp(z \div 2)}

\* The browser keeps the container inside its content.
Scrolled(wanted, d) == Max({0, Min({wanted, d.fit * d.zoom - d.fit})})

Fits(f) == f # NoFrame /\ f.end > f.start

FrameZoom(f, fit) == Clamp(((fit - Margin) * DayLength) \div ((f.end - f.start) * fit))

FrameTop(f, fit) ==
  Max({0, (f.start * fit * FrameZoom(f, fit)) \div DayLength - Margin})

Occurs == events < MaxEvents /\ events' = events + 1

\* The layout effects of the first render: it fits the frame, if there is one.
Opened(h, f) ==
  LET zoom == IF Fits(f) THEN FrameZoom(f, h) ELSE 1
      d    == [fit |-> h, frame |-> f, zoom |-> zoom]
  IN  [drawn |-> d, top |-> IF Fits(f) THEN Scrolled(FrameTop(f, h), d) ELSE 0]

Init ==
  /\ height \in Heights /\ frame \in Frames \cup {NoFrame}
  /\ drawn = Opened(height, frame).drawn /\ top = Opened(height, frame).top
  /\ asked = drawn.zoom /\ pending = NoScroll /\ adjusted = FALSE
  /\ pinch = NoPinch /\ atTop = FALSE /\ burst = NoBurst /\ events = 0

\* Faulty: a step starts from the place that is drawn.
ZoomToFromDrawn(next, y) ==
  IF next = asked
  THEN UNCHANGED <<asked, pending, burst>>
  ELSE /\ asked' = next
       /\ pending' = [top |-> ((top + y) * next) \div asked - y, zoom |-> next]
       /\ burst' = IF burst \in {NoBurst, y} THEN y ELSE Mixed

\* zoomBy: the time under the pointer stays where it is.  It continues from the
\* place the previous step asked for, which is not drawn yet.
ZoomTo(next, y) ==
  IF next = asked
  THEN UNCHANGED <<asked, pending, burst>>
  ELSE LET from == IF pending = NoScroll THEN top ELSE pending.top
       IN  /\ asked' = next
           /\ pending' = [top |-> ((from + y) * next) \div asked - y, zoom |-> next]
           /\ burst' = IF burst \in {NoBurst, y} THEN y ELSE Mixed

PageScrolls == Short /\ ~atTop

\* onWheel with Ctrl held, and a trackpad's pinch.
ZoomWheel ==
  /\ Occurs
  /\ adjusted' = TRUE
  /\ \E next \in Steps(asked), y \in Pointers : ZoomTo(next, y)
  /\ UNCHANGED <<height, frame, drawn, top, pinch, atTop>>

\* onWheel without it, where the page is not the one that scrolls.
ScrollWheel ==
  /\ Occurs
  /\ ~PageScrolls
  /\ adjusted' = TRUE
  /\ \E p \in Places : top' = Scrolled(p, drawn)
  /\ burst' = IF burst = NoBurst THEN NoBurst ELSE Mixed
  /\ UNCHANGED <<height, frame, drawn, asked, pending, pinch, atTop>>

\* onGesture: gesturestart takes the view over, gesturechange zooms.
GestureStart ==
  /\ Occurs
  /\ adjusted' = TRUE
  /\ UNCHANGED <<height, frame, drawn, asked, pending, top, pinch, atTop, burst>>

TouchStart ==
  /\ Occurs
  /\ pinch' = asked
  /\ UNCHANGED <<height, frame, drawn, asked, pending, adjusted, top, atTop, burst>>

\* onTouchMove: the zoom follows the distance from where the fingers started.
TouchMove ==
  /\ Occurs
  /\ pinch # NoPinch
  /\ adjusted' = TRUE
  /\ \E next \in Steps(pinch) \cup {pinch}, y \in Pointers : ZoomTo(next, y)
  /\ UNCHANGED <<height, frame, drawn, top, pinch, atTop>>

TouchEnd ==
  /\ Occurs
  /\ pinch # NoPinch /\ pinch' = NoPinch
  /\ UNCHANGED <<height, frame, drawn, asked, pending, adjusted, top, atTop, burst>>

\* One finger, or the scroll bar: the handlers hear nothing of it.
NativeScroll ==
  /\ Occurs
  /\ \E p \in Places : top' = Scrolled(p, drawn)
  /\ burst' = IF burst = NoBurst THEN NoBurst ELSE Mixed
  /\ UNCHANGED <<height, frame, drawn, asked, pending, adjusted, pinch, atTop>>

PageScroll ==
  /\ Occurs
  /\ Short
  /\ atTop' = ~atTop
  /\ UNCHANGED <<height, frame, drawn, asked, pending, adjusted, top, pinch, burst>>

Resize ==
  /\ Occurs
  /\ \E h \in Heights \ {height} : height' = h
  /\ UNCHANGED <<frame, drawn, asked, pending, adjusted, top, pinch, atTop, burst>>

FrameChanges ==
  /\ Occurs
  /\ \E f \in Frames \ {frame} : frame' = f
  /\ UNCHANGED <<height, drawn, asked, pending, adjusted, top, pinch, atTop, burst>>

Refits == ~adjusted /\ Fits(frame) /\ <<drawn.fit, drawn.frame>> # <<height, frame>>

\* The render after a new zoom, size or frame, and its layout effects.
Render ==
  /\ drawn # [fit |-> height, frame |-> frame, zoom |-> asked]
  /\ LET zoom   == IF Refits THEN FrameZoom(frame, height) ELSE asked
         d      == [fit |-> height, frame |-> frame, zoom |-> zoom]
         wanted == IF Refits THEN FrameTop(frame, height)
                   ELSE IF pending = NoScroll THEN top ELSE pending.top
     IN  drawn' = d /\ asked' = zoom /\ top' = Scrolled(wanted, d)
  /\ pending' = NoScroll /\ burst' = NoBurst
  /\ UNCHANGED <<height, frame, adjusted, pinch, atTop, events>>

\* A render for another reason before it, at the zoom drawn last.  It applies a
\* place left over from steps that cancelled each other (no render followed).
OtherRender ==
  /\ pending # NoScroll /\ pending.zoom = drawn.zoom
  /\ top' = Scrolled(pending.top, drawn)
  /\ pending' = NoScroll /\ burst' = NoBurst
  /\ UNCHANGED <<height, frame, drawn, asked, adjusted, pinch, atTop, events>>

\* A jump to another day mounts the view anew.
Remount ==
  /\ Occurs
  /\ drawn' = Opened(height, frame).drawn /\ top' = Opened(height, frame).top
  /\ asked' = Opened(height, frame).drawn.zoom
  /\ pending' = NoScroll /\ adjusted' = FALSE /\ pinch' = NoPinch
  /\ atTop' = FALSE /\ burst' = NoBurst
  /\ UNCHANGED <<height, frame>>

Next ==
  \/ ZoomWheel \/ ScrollWheel \/ GestureStart \/ TouchStart \/ TouchMove \/ TouchEnd
  \/ NativeScroll \/ PageScroll \/ Resize \/ FrameChanges
  \/ Render \/ OtherRender \/ Remount

Spec == Init /\ [][Next]_vars

\* However many zoom steps at one pointer a render draws at once, the time that
\* was under the pointer is still there, or the view is at an end of the day
\* (WeekView.tsx:197-206).  Rounding may move it by a few pixels.
StaysAtPointer ==
  (/\ Render /\ burst \in Pointers /\ adjusted /\ drawn'.fit = drawn.fit)
  => LET was == (top + burst) * drawn'.zoom
         is  == (top' + burst) * drawn.zoom
     IN  \/ top' \in {0, drawn'.fit * (drawn'.zoom - 1)}
         \/ was - is \in -(4 * MaxZoom) .. (4 * MaxZoom)
=============================================================================
