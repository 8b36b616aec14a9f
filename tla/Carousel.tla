----------------------------- MODULE Carousel -----------------------------
(***************************************************************************)
(* The carousel of bootstrap.js 306-495.  The object of the script and the *)
(* classes of its elements are one record; a method is an operator from    *)
(* the record to the record, so that methods that call one another compose *)
(* as they do in the code.  Scripts run to their end; what interleaves is  *)
(* events, timers and the ends of transitions.                             *)
(***************************************************************************)
EXTENDS Integers, Sequences, FiniteSetsExt

CONSTANTS
  Sizes,    \* numbers of items
  Timer,    \* the identities setInterval gives out
  NoTimer,
  MaxQueue, \* bound: nobody clicks with so many handlers waiting for a slide to end
  MaxTicks  \* bound on the ends of slides that have not been announced yet

VARIABLE carousel

None == -1

Item(n) == 0 .. n - 1
State(n) ==
  [n : {n}, wrap : BOOLEAN, auto : BOOLEAN, animated : BOOLEAN, sliding : BOOLEAN,
   paused : BOOLEAN, calm : BOOLEAN, active : SUBSET Item(n), lit : SUBSET Item(n),
   moving : SUBSET (Item(n) \X Item(n)), interval : Timer \cup {NoTimer},
   timers : SUBSET Timer, slid : Seq({None} \cup Item(n)), run : Seq({None} \cup Item(n)),
   ticks : 0 .. MaxTicks]
TypeOK == \E n \in Sizes : carousel \in State(n)

\* The markup shows one item and its indicator.  auto: options.interval is not 0;
\* animated: the browser has transitions and the element the class slide.
\* moving: the slides under way, from item to item; slid: the handlers that wait for
\* slid.bs.carousel, to(pos) or None for the one that lights an indicator; run: those of
\* them that are being run; ticks: slid events under way; calm: no slide was prevented,
\* and none started between the end of another and its slid event.
Init ==
  \E n \in Sizes, wrap, auto, animated \in BOOLEAN :
    \E i \in Item(n) :
      carousel = [n |-> n, wrap |-> wrap, auto |-> auto, animated |-> animated,
                  active |-> {i}, lit |-> {i}, moving |-> {}, sliding |-> FALSE,
                  paused |-> FALSE, interval |-> NoTimer, timers |-> {}, slid |-> <<>>,
                  run |-> <<>>, ticks |-> 0, calm |-> TRUE]

-----------------------------------------------------------------------------
(* Methods.  An argument event says whether the method is called by one.    *)

Clear(c) == [c EXCEPT !.timers = @ \ {c.interval}]
SetInterval(c) ==
  LET t == CHOOSE t \in Timer : t \notin c.timers
  IN [c EXCEPT !.timers = @ \cup {t}, !.interval = t]

\* A cycle that does not stop the timer it replaces.
CycleOnTop(c, event) ==
  LET paused == event /\ c.paused
  IN IF c.auto /\ ~paused THEN SetInterval([c EXCEPT !.paused = paused])
                          ELSE [c EXCEPT !.paused = paused]
Cycle(c, event) ==
  LET paused == event /\ c.paused
      stopped == [Clear(c) EXCEPT !.paused = paused]
  IN IF c.auto /\ ~paused THEN SetInterval(stopped) ELSE stopped

\* The end it triggers is one of the element, not of the item: it ends no slide.
Pause(c, event) ==
  LET paused == [c EXCEPT !.paused = event => @]
      cycled == IF c.moving # {} THEN Cycle(paused, TRUE) ELSE paused
  IN [Clear(cycled) EXCEPT !.interval = NoTimer]

Active(c) == Min(c.active)
\* An item behind the last one.
BesideEnd(c, dir) == IF dir = "next" THEN Active(c) + 1 ELSE Active(c) - 1
Beside(c, dir) ==
  LET i == Active(c) IN
  IF dir = "next" THEN IF i + 1 < c.n THEN i + 1 ELSE IF c.wrap THEN 0 ELSE None
  ELSE IF i > 0 THEN i - 1 ELSE IF c.wrap THEN c.n - 1 ELSE None

\* From here on the old item has the class of the direction, until its transition ends.
Started(c, to) ==
  IF c.animated
  THEN [c EXCEPT !.moving = @ \cup {<<Active(c), to>>}]
  ELSE [c EXCEPT !.active = (@ \ {Active(c)}) \cup {to}, !.sliding = FALSE,
                 !.lit = {to}, !.slid = <<>>]

\* slide.bs.carousel may be prevented.  A carousel of one item slides to itself, and
\* never again.
Slide(c, to, prevented) ==
  LET cycling == c.interval # NoTimer
      sliding == [c EXCEPT !.sliding = TRUE]
      held == IF cycling THEN Pause(sliding, FALSE) ELSE sliding
      dark == [held EXCEPT !.lit = {}, !.slid = Append(@, None),
                           !.calm = @ /\ ~prevented /\ c.ticks = 0]
  IN IF to = None THEN c
     ELSE IF to \in c.active THEN held
     ELSE IF prevented THEN dark
     ELSE IF cycling THEN Cycle(Started(dark, to), FALSE) ELSE Started(dark, to)

\* next and prev; a mistake would be to slide while another slide is under way.
StepAnyway(c, dir, prevented) == Slide(c, Beside(c, dir), prevented)
Step(c, dir, prevented) ==
  IF c.sliding THEN c ELSE Slide(c, Beside(c, dir), prevented)

To(c, pos, prevented) ==
  IF c.sliding THEN [c EXCEPT !.slid = Append(@, pos)]
  ELSE IF Active(c) = pos THEN Cycle(Pause(c, FALSE), FALSE)
  ELSE Slide(c, pos, prevented)

-----------------------------------------------------------------------------
(* Events.  None comes while handlers are being run.                        *)

Event(c) == carousel.run = <<>> /\ carousel' = c

MouseEnter == Event(Pause(carousel, TRUE))
MouseLeave == Event(Cycle(carousel, TRUE))

\* A timer fires, or a control is clicked.
Fires(prevented) == carousel.timers # {} /\ Event(Step(carousel, "next", prevented))
Control(dir, prevented) ==
  Len(carousel.slid) < MaxQueue /\ Event(Step(carousel, dir, prevented))

Indicator(pos, prevented) ==
  /\ pos \in Item(carousel.n) /\ Len(carousel.slid) < MaxQueue
  /\ Event(To(carousel, pos, prevented))

\* carousel("pause"), carousel("cycle"), and carousel(options) of the page when it loads.
Script ==
  \/ Event(Pause(carousel, FALSE)) \/ Event(Cycle(carousel, FALSE))
  \/ carousel.auto /\ Event(Cycle(Pause(carousel, FALSE), FALSE))

\* The transition ends, or that of an element in the item, or the timer of
\* emulateTransitionEnd fires.
TransitionEnd ==
  /\ carousel.ticks < MaxTicks
  /\ \E m \in carousel.moving :
       Event([carousel EXCEPT !.moving = @ \ {m}, !.sliding = FALSE,
                              !.active = (@ \cup {m[2]}) \ {m[1]}, !.ticks = @ + 1])

\* The event slid.bs.carousel: its handlers run one after the other.
Slid ==
  /\ carousel.ticks > 0
  /\ Event([carousel EXCEPT !.ticks = @ - 1, !.run = carousel.slid, !.slid = <<>>])

\* Lighting the indicator of the item one came from.
LightOther(c) == [c EXCEPT !.lit = @ \cup {(Active(c) + c.n - 1) % c.n}]
Light(c) == [c EXCEPT !.lit = @ \cup {Active(c)}]

Handle(prevented) ==
  /\ carousel.run # <<>>
  /\ LET c == [carousel EXCEPT !.run = Tail(@)] IN
     \/ Head(carousel.run) = None /\ carousel' = Light(c)
     \/ Head(carousel.run) # None /\ carousel' = To(c, Head(carousel.run), prevented)

Next ==
  \/ MouseEnter \/ MouseLeave \/ Script \/ TransitionEnd \/ Slid
  \/ \E prevented \in BOOLEAN :
       \/ Fires(prevented) \/ Handle(prevented)
       \/ \E dir \in {"next", "prev"} : Control(dir, prevented)
       \/ \E n \in Sizes : \E pos \in Item(n) : Indicator(pos, prevented)

Spec == Init /\ [][Next]_carousel
-----------------------------------------------------------------------------
(* Properties.                                                             *)

\* Of all the timers that cycle has set, only the one the object knows still runs:
\* hovering, clicking and sliding in any order leak none (bootstrap.js 327-369).
OneTimer == carousel.timers \subseteq {carousel.interval}

\* One item is shown, and when nothing moves its indicator is the one that is lit
\* (402-408), unless a slide began before the last one was announced.
OneItem ==
  /\ Cardinality(carousel.active) = 1
  /\ carousel.calm /\ carousel.moving = {} /\ carousel.ticks = 0 /\ carousel.run = <<>> =>
       carousel.lit = carousel.active
=============================================================================
