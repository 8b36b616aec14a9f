------------------------------ MODULE Tooltip ------------------------------
(***************************************************************************)
(* The tooltip of bootstrap.js 1107-1453, and the popover, which shares its *)
(* methods (1493-1571).  enter and leave come from the events of an         *)
(* element, may be delayed by a timer each, and a tip that fades is taken  *)
(* out of the document by a callback.  A method is an operator from the    *)
(* record to the record.                                                   *)
(***************************************************************************)
VARIABLE tooltip

State ==
  [slow : BOOLEAN, lingers : BOOLEAN, fades : BOOLEAN, enabled : BOOLEAN, content : BOOLEAN,
   hover : {"none", "in", "out"}, timer : {"none", "show", "hide"}, attached : BOOLEAN,
   in : BOOLEAN, fade : BOOLEAN, pend : BOOLEAN, gone : BOOLEAN, calm : BOOLEAN]
TypeOK == tooltip \in State

\* slow and lingers: options.delay; fades: options.animation in a browser with
\* transitions; fade and in: classes of the tip; attached: it is in the document; pend: a
\* callback waits for its transition; gone: destroyed.  calm: the last enter or leave
\* was not interfered with since, by a script or a handler that prevents it.
Made(slow, lingers, fades, content) ==
  [slow |-> slow, lingers |-> lingers, fades |-> fades, enabled |-> TRUE,
   content |-> content, hover |-> "none", timer |-> "none", attached |-> FALSE,
   in |-> FALSE, fade |-> FALSE, pend |-> FALSE, gone |-> FALSE, calm |-> TRUE]
Init == \E slow, lingers, fades, content \in BOOLEAN :
          tooltip = Made(slow, lingers, fades, content)

-----------------------------------------------------------------------------
(* Methods.                                                                *)

Show(t, prevented) ==
  IF t.content /\ t.enabled /\ ~prevented
  THEN [t EXCEPT !.attached = TRUE, !.in = TRUE, !.fade = t.fades]
  ELSE [t EXCEPT !.calm = FALSE]

\* A callback that does not ask whether the tip is wanted again.
CompleteAnyway(t) == [t EXCEPT !.pend = FALSE, !.attached = FALSE]
Complete(t) ==
  [t EXCEPT !.pend = FALSE, !.attached = IF t.hover # "in" THEN FALSE ELSE @]

\* All callbacks that wait run at the same time and do the same: one stands for them.
Hide(t, prevented) ==
  IF prevented THEN [t EXCEPT !.calm = FALSE]
  ELSE LET out == [t EXCEPT !.in = FALSE]
       IN IF t.fade THEN [out EXCEPT !.pend = TRUE]
          ELSE [out EXCEPT !.attached = Complete(out).attached]

\* Setting self.timeout follows clearTimeout: there is one timer.
Enter(t, prevented) ==
  LET entered == [t EXCEPT !.hover = "in", !.timer = "none", !.calm = TRUE]
  IN IF t.slow THEN [entered EXCEPT !.timer = "show"] ELSE Show(entered, prevented)
Leave(t, prevented) ==
  LET left == [t EXCEPT !.hover = "out", !.timer = "none", !.calm = TRUE]
  IN IF t.lingers THEN [left EXCEPT !.timer = "hide"] ELSE Hide(left, prevented)

Toggle(t, prevented) == IF t.in THEN Leave(t, prevented) ELSE Enter(t, prevented)

-----------------------------------------------------------------------------
(* Events, until destroy has taken the handlers off.                        *)

Pointer(prevented) ==
  /\ ~tooltip.gone
  /\ \/ tooltip' = Enter(tooltip, prevented)
     \/ tooltip' = Leave(tooltip, prevented)
     \/ tooltip' = Toggle(tooltip, prevented)

\* The timers ask for hoverState again, which cannot differ: it is set where the timer
\* is cleared.
Timeout(prevented) ==
  LET t == [tooltip EXCEPT !.timer = "none"] IN
  \/ tooltip.timer = "show" /\ t.hover = "in" /\ tooltip' = Show(t, prevented)
  \/ tooltip.timer = "hide" /\ t.hover = "out" /\ tooltip' = Hide(t, prevented)

TransitionEnd == tooltip.pend /\ tooltip' = Complete(tooltip)

\* Calls by a script, which may also change the title.
Interfere(t) == ~tooltip.gone /\ tooltip' = [t EXCEPT !.calm = FALSE]
Script(prevented) ==
  \/ Interfere(Show(tooltip, prevented))
  \/ Interfere(Hide(tooltip, prevented))
  \/ ~tooltip.gone /\ tooltip' = [tooltip EXCEPT !.enabled = ~@]
  \/ ~tooltip.gone /\ tooltip' = [tooltip EXCEPT !.content = ~@]

\* Neither the timer nor the callback is taken back.
Destroy == Interfere([Hide(tooltip, FALSE) EXCEPT !.gone = TRUE])

\* A new object for the element, whose tip is another one.
Create ==
  /\ tooltip.gone
  /\ tooltip' = Made(tooltip.slow, tooltip.lingers, tooltip.fades, tooltip.content)

Next == \/ TransitionEnd \/ Destroy \/ Create
        \/ \E prevented \in BOOLEAN : Pointer(prevented) \/ Timeout(prevented) \/ Script(prevented)

Spec == Init /\ [][Next]_tooltip
-----------------------------------------------------------------------------
(* Properties.                                                             *)

\* When neither a timer nor a transition is under way, the tip is in the document and
\* visible exactly if the pointer is in, however the events before met the timers
\* and the transitions of one another (bootstrap.js 1185-1213, 1343-1345).
TipFollows ==
  tooltip.calm /\ tooltip.timer = "none" /\ ~tooltip.pend =>
    /\ tooltip.attached <=> tooltip.hover = "in"
    /\ tooltip.in <=> tooltip.hover = "in"
=============================================================================
