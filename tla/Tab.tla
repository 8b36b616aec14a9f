-------------------------------- MODULE Tab --------------------------------
(***************************************************************************)
(* Tabs of bootstrap.js 1770-1877: a list of togglers and the panes they    *)
(* show.  A pane that fades is replaced at the end of its transition, by a *)
(* callback that remembers which panes it replaces.                        *)
(***************************************************************************)
EXTENDS Integers, Sequences, FiniteSets

CONSTANTS
  Pane,
  MaxFading \* bound: nobody clicks with so many callbacks waiting for one pane

VARIABLE tab

Callback == [old : SUBSET Pane, new : Pane]

State == [animated : BOOLEAN, li : SUBSET Pane, active : SUBSET Pane, fade : SUBSET Pane,
          in : SUBSET Pane, pend : [Pane -> Seq(Callback)], calm : BOOLEAN]
TypeOK == tab \in State

\* li: the togglers that are active; active, fade, in: the panes with that class; pend:
\* callbacks that wait for a pane.  calm: no toggler was clicked while a pane faded.
Init ==
  \E p \in Pane, fade \in SUBSET Pane, animated \in BOOLEAN :
    tab = [animated |-> animated, li |-> {p}, active |-> {p}, fade |-> fade,
           in |-> {p} \cap fade, pend |-> [q \in Pane |-> <<>>], calm |-> TRUE]

-----------------------------------------------------------------------------
\* next, where the old pane fades: the new one fades in.  The callbacks ks that wait run one
\* after the other: what one has shown stays, unless a later one replaces it.
Activated(t, ks) ==
  LET Stays(p, i) == \A j \in i + 1 .. Len(ks) : p \notin ks[j].old
      last == {i \in 1 .. Len(ks) : Stays(ks[i].new, i)}
  IN [t EXCEPT !.active = {p \in @ : Stays(p, 0)} \cup {ks[i].new : i \in last}]
FadeIn(t, ks) == [Activated(t, ks) EXCEPT !.in = @ \cup {ks[i].new : i \in 1 .. Len(ks)}]
\* And where it does not fade: the new one is not to fade either, so its class goes.
Replace(t, k) == [t EXCEPT !.active = (@ \ k.old) \cup {k.new}, !.fade = @ \ {k.new}]

Shown(t, new) ==
  LET k == [old |-> t.active, new |-> new]
      chosen == [t EXCEPT !.li = {new},
                          !.calm = @ /\ \A p \in Pane : t.pend[p] = <<>>]
      done == IF t.animated /\ t.active \cap t.fade # {}
              THEN [chosen EXCEPT !.pend = [p \in Pane |-> IF p \in k.old THEN Append(@[p], k)
                                                                          ELSE @[p]]]
              ELSE Replace(chosen, k)
  IN [done EXCEPT !.in = @ \ k.old]

\* A click on a toggler, or tab("show"); show.bs.tab is not prevented, or nothing happens.
Show(new) ==
  /\ \A p \in Pane : Len(tab.pend[p]) < MaxFading
  /\ tab' = IF new \in tab.li THEN tab ELSE Shown(tab, new)

\* The transition of the pane, or of something in it, ends.
TransitionEnd(p) ==
  /\ tab.pend[p] # <<>>
  /\ tab' = FadeIn([tab EXCEPT !.pend[p] = <<>>], tab.pend[p])

Next == \E p \in Pane : Show(p) \/ TransitionEnd(p)

Spec == Init /\ [][Next]_tab
-----------------------------------------------------------------------------
(* Properties.                                                             *)

\* When nothing fades, the pane of the chosen toggler is shown, not left transparent, and
\* no other is, if nobody clicked while one faded (bootstrap.js 1797-1840).
PaneOfTab ==
  tab.calm /\ (\A p \in Pane : tab.pend[p] = <<>>) =>
    /\ tab.active = tab.li /\ Cardinality(tab.li) = 1
    /\ tab.animated => tab.active \cap tab.fade \subseteq tab.in
=============================================================================
