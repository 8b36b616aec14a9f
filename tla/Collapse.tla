----------------------------- MODULE Collapse -----------------------------
(***************************************************************************)
(* Collapsible panels of bootstrap.js 524-675, each opened by a toggler of  *)
(* its own, and the accordion they form when the togglers name a parent:   *)
(* then opening one closes the others.  A method is an operator from the   *)
(* record to the record.                                                   *)
(***************************************************************************)
EXTENDS Integers, FiniteSets

CONSTANT Panel

VARIABLE collapse

Callback == [to : {"shown", "hidden"}, own : BOOLEAN]
PanelState ==
  [cls : SUBSET {"collapse", "collapsing", "in"}, obj : {"none", "alone", "grouped"},
   transitioning : BOOLEAN, pend : SUBSET Callback]

State == [grouped : BOOLEAN, animated : BOOLEAN, collapsed : SUBSET Panel, calm : BOOLEAN,
          panel : [Panel -> PanelState]]
TypeOK == collapse \in State

\* grouped: the togglers name a parent.  obj: what data("bs.collapse") holds, with or
\* without a parent; own: the callback belongs to that object and not to one that was
\* dropped.  collapsed: the togglers that have this class.  calm: no panel was clicked
\* while one moved, and no opening was prevented.
Init ==
  \E grouped, animated \in BOOLEAN, open \in SUBSET Panel :
    /\ grouped => Cardinality(open) <= 1
    /\ collapse =
         [grouped |-> grouped, animated |-> animated, collapsed |-> Panel \ open, calm |-> TRUE,
          panel |-> [p \in Panel |->
            [cls |-> IF p \in open THEN {"collapse", "in"} ELSE {"collapse"}, obj |-> "none",
             transitioning |-> FALSE, pend |-> {}]]]

-----------------------------------------------------------------------------
(* Methods.                                                                *)

Open(s) == "in" \in s.cls

\* complete, of show and of hide, for all the callbacks K that wait: each does what it
\* does whatever the others have done.
ClassOf == [shown |-> "in", hidden |-> "collapse"]
Completed(s, K) ==
  [s EXCEPT !.cls = (@ \ {"collapsing"}) \cup {ClassOf[k.to] : k \in K},
            !.transitioning = @ /\ \A k \in K : ~k.own]

\* The panel gets the class of the transition, and completes at its end.
Moved(s, to, animated) ==
  LET k == [to |-> to, own |-> TRUE]
      moving == [s EXCEPT !.cls = IF to = "shown" THEN (@ \ {"collapse"}) \cup {"collapsing"}
                                  ELSE (@ \ {"collapse", "in"}) \cup {"collapsing"},
                          !.transitioning = TRUE]
  IN IF animated THEN [moving EXCEPT !.pend = @ \cup {k}] ELSE Completed(moving, {k})

Hide(s, animated) ==
  IF s.transitioning \/ ~Open(s) THEN s ELSE Moved(s, "hidden", animated)

\* collapse("hide") of a panel makes its object if it has none, and that of a panel
\* that had none is dropped again: it knows no parent.  What it has begun goes on.
Keep(s, animated) ==
  [Hide(s, animated) EXCEPT !.obj = IF @ = "none" THEN "alone" ELSE @]
DropNone(s) == s
Drop(s) ==
  [s EXCEPT !.obj = "none", !.transitioning = FALSE,
            !.pend = {[k EXCEPT !.own = FALSE] : k \in @}]

\* show closes the panels of the parent that are open, none of which is moving: what
\* moves has lost the class in.  Whether they have an object is asked of the first.
CloseOthers(c, p) ==
  LET first == CHOOSE q \in Panel : Open(c.panel[q])
      known == c.panel[first].obj # "none"
  IN [q \in Panel |->
        IF Open(c.panel[q]) /\ c.panel[p].obj = "grouped"
        THEN IF known THEN Keep(c.panel[q], c.animated) ELSE Drop(Keep(c.panel[q], c.animated))
        ELSE c.panel[q]]

Show(c, p, prevented) ==
  IF c.panel[p].transitioning \/ Open(c.panel[p]) THEN c
  ELSE IF prevented THEN [c EXCEPT !.calm = FALSE]
  ELSE [c EXCEPT !.panel = [CloseOthers(c, p) EXCEPT ![p] = Moved(@, "shown", c.animated)]]

Toggle(c, p, prevented) ==
  IF ~Open(c.panel[p]) THEN Show(c, p, prevented)
  ELSE IF prevented THEN [c EXCEPT !.calm = FALSE]
  ELSE [c EXCEPT !.panel[p] = Hide(@, c.animated)]

\* The togglers are marked when one is clicked, unless its panel is moving.
Marked(c, p) ==
  IF c.panel[p].transitioning THEN c.collapsed
  ELSE LET others == IF c.grouped THEN Panel \ {p} ELSE c.collapsed \ {p}
       IN IF Open(c.panel[p]) THEN others \cup {p} ELSE others

-----------------------------------------------------------------------------
(* Events.                                                                 *)

\* The object of a panel is made at its first click, and toggles then.
Click(p, prevented) ==
  collapse' =
    Toggle([collapse EXCEPT
              !.collapsed = Marked(collapse, p),
              !.calm = @ /\ \A q \in Panel : collapse.panel[q].pend = {},
              !.panel[p].obj = IF @ # "none" THEN @
                               ELSE IF collapse.grouped THEN "grouped" ELSE "alone"],
           p, prevented)

\* The end of the transition, of one inside the panel, or the timer of
\* emulateTransitionEnd: all callbacks that wait are run.
TransitionEnd(p) ==
  /\ collapse.panel[p].pend # {}
  /\ collapse' = [collapse EXCEPT !.panel[p] = Completed([@ EXCEPT !.pend = {}], @.pend)]

Next == \E p \in Panel : \/ TransitionEnd(p)
                         \/ \E prevented \in BOOLEAN : Click(p, prevented)

Spec == Init /\ [][Next]_collapse
-----------------------------------------------------------------------------
(* Properties.                                                             *)

AtRest == \A p \in Panel : collapse.panel[p].pend = {}

\* At rest no panel is left in the middle.  If nobody clicked while a panel moved, an
\* accordion shows at most one and the togglers tell which are open
\* (bootstrap.js 549-556, 669-672).
Accordion ==
  AtRest =>
    /\ \A p \in Panel : /\ "collapsing" \notin collapse.panel[p].cls
                        /\ ~collapse.panel[p].transitioning
    /\ collapse.calm =>
         LET open == {p \in Panel : Open(collapse.panel[p])} IN
         /\ collapse.grouped => Cardinality(open) <= 1
         /\ collapse.collapsed = Panel \ open
=============================================================================
