----------------------------- MODULE MCWidgets -----------------------------
(***************************************************************************)
(* The widgets of bootstrap.js for TLC.  They share nothing, so that a run *)
(* takes one of them, kind, and explores its object, the record widget.    *)
(***************************************************************************)
EXTENDS Integers, Sequences, FiniteSets

CONSTANTS Sizes, Timer, NoTimer, MaxQueue, MaxTicks, Panel, Back, NoBack, MaxHides,
          Pane, MaxFading, Section, Top, Position, MaxScroll

\* A carousel has items, and setInterval gives out identities.  Where hide waits for the
\* dialog once or twice, DialogEnd is the code's.
ASSUME WidgetAssumption ==
  /\ Sizes \subseteq Nat \ {0}
  /\ Timer # {} /\ NoTimer \notin Timer
  /\ {MaxQueue, MaxTicks} \subseteq Nat
  /\ IsFiniteSet(Panel) /\ IsFiniteSet(Back) /\ IsFiniteSet(Section)
  /\ Top \cup Position \cup {MaxScroll} \subseteq Int
  /\ MaxHides \in {1, 2}

VARIABLES kind, widget
vars == <<kind, widget>>

Tip == INSTANCE Tooltip WITH tooltip <- widget
Car == INSTANCE Carousel WITH carousel <- widget
Pan == INSTANCE Collapse WITH collapse <- widget
Mod == INSTANCE Modal WITH modal <- widget
Tabs == INSTANCE Tab WITH tab <- widget
Spy == INSTANCE ScrollSpy WITH spy <- widget

Init ==
  \/ kind = "tooltip" /\ Tip!Init
  \/ kind = "carousel" /\ Car!Init
  \/ kind = "collapse" /\ Pan!Init
  \/ kind = "modal" /\ Mod!Init
  \/ kind = "tab" /\ Tabs!Init
  \/ kind = "scrollspy" /\ Spy!Init

Next ==
  /\ \/ kind = "tooltip" /\ Tip!Next
     \/ kind = "carousel" /\ Car!Next
     \/ kind = "collapse" /\ Pan!Next
     \/ kind = "modal" /\ Mod!Next
     \/ kind = "tab" /\ Tabs!Next
     \/ kind = "scrollspy" /\ Spy!Next
  /\ UNCHANGED kind

\* Transitions end, at the latest by the timer of emulateTransitionEnd.
Spec ==
  /\ Init /\ [][Next]_vars
  /\ WF_vars(kind = "modal" /\ Mod!DialogEnd /\ UNCHANGED kind)
  /\ \A b \in Back : WF_vars(kind = "modal" /\ Mod!BackdropEnd(b) /\ UNCHANGED kind)

\* The properties of the modules, of the widget this run is about.
TypeOK ==
  /\ kind = "tooltip" => Tip!TypeOK
  /\ kind = "carousel" => Car!TypeOK
  /\ kind = "collapse" => Pan!TypeOK
  /\ kind = "modal" => Mod!TypeOK
  /\ kind = "tab" => Tabs!TypeOK
  /\ kind = "scrollspy" => Spy!TypeOK
TipFollows == kind = "tooltip" => Tip!TipFollows
OneTimer == kind = "carousel" => Car!OneTimer
OneItem == kind = "carousel" => Car!OneItem
Accordion == kind = "collapse" => Pan!Accordion
ModalWhole == kind = "modal" => Mod!ModalWhole
PaneOfTab == kind = "tab" => Tabs!PaneOfTab
SpyRight == kind = "scrollspy" => Spy!SpyRight
Disappears == (kind = "modal" /\ Mod!Leaving) ~> (kind = "modal" /\ Mod!Left)
=============================================================================
