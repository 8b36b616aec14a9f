------------------------------- MODULE Modal -------------------------------
(***************************************************************************)
(* The modal dialog of bootstrap.js 859-1077: the dialog, the backdrop      *)
(* behind it, and the handlers and classes that are set while it is shown. *)
(* A method is an operator from the record to the record; a dialog that    *)
(* fades goes on at the end of a transition, of the backdrop or of itself. *)
(***************************************************************************)
EXTENDS Integers, FiniteSets

CONSTANTS
  Back,    \* backdrops
  NoBack,
  MaxHides \* bound: nobody hides it with so many callbacks of hide waiting

VARIABLE modal

State ==
  [fade : BOOLEAN, keyboard : BOOLEAN, drop : {"none", "close", "static"}, isShown : BOOLEAN,
   visible : BOOLEAN, in : BOOLEAN, open : BOOLEAN, backs : SUBSET Back,
   back : Back \cup {NoBack}, escapes : Nat, dismiss : Nat, guards : Nat,
   hiding : 0 .. MaxHides, waiting : SUBSET (Back \X {"reveal", "remove"}), calm : BOOLEAN]
TypeOK == modal \in State

\* drop: options.backdrop.  visible, in: display and class of the dialog; open: the class
\* modal-open of the body; backs: backdrops in the document, of which the object knows
\* back; escapes, dismiss, guards: handlers of keyup, click and focusin; hiding, waiting:
\* callbacks that wait for the transition of the dialog and of a backdrop.
\* calm: show was not prevented, nor called before the dialog was hidden, nor hide before
\* the backdrop was there.
Init ==
  \E fade, keyboard \in BOOLEAN, drop \in {"none", "close", "static"} :
    modal = [fade |-> fade, keyboard |-> keyboard, drop |-> drop, isShown |-> FALSE,
             visible |-> FALSE, in |-> FALSE, open |-> FALSE, backs |-> {}, back |-> NoBack,
             escapes |-> 0, dismiss |-> 0, guards |-> 0, hiding |-> 0, waiting |-> {},
             calm |-> TRUE]

-----------------------------------------------------------------------------
(* Methods.                                                                *)

\* The first part is escape, the second removes click.dismiss.modal and focusin.bs.modal.
KeepHandlers(m) == [m EXCEPT !.escapes = 0, !.guards = 0]
NoHandlers(m) == [m EXCEPT !.escapes = 0, !.dismiss = 0, !.guards = 0]

\* The callback of show.  enforceFocus replaces the handler of focusin.
Reveal(m) == [m EXCEPT !.visible = TRUE, !.in = TRUE, !.guards = 1]

\* The callback of hide: removeBackdrop, and hidden.bs.modal.  With an element go the
\* callbacks that wait for it.
LoseBackdrop(m) == [m EXCEPT !.back = NoBack, !.open = FALSE]
RemoveBackdrop(m) ==
  [m EXCEPT !.backs = @ \ {m.back}, !.back = NoBack, !.open = FALSE,
            !.waiting = {w \in @ : w[1] # m.back}]

\* The callbacks C, each any number of times: they touch different things, and twice does
\* what once does.
Called(m, C) ==
  LET revealed == IF "reveal" \in C THEN Reveal(m) ELSE m
  IN IF "remove" \in C THEN RemoveBackdrop(revealed) ELSE revealed

\* The object forgets a backdrop it had.
AddBackdrop(m) ==
  LET b == CHOOSE b \in Back : b \notin m.backs
  IN [m EXCEPT !.backs = @ \cup {b}, !.back = b, !.dismiss = @ + 1]

Backdrop(m, callback) ==
  LET added == IF m.isShown /\ m.drop # "none" THEN AddBackdrop(m) ELSE m
      animated == m.fade /\ IF m.isShown THEN m.drop # "none" ELSE m.back # NoBack
  IN IF animated THEN [added EXCEPT !.waiting = @ \cup {<<added.back, callback>>}]
                 ELSE Called(added, {callback})

HideModal(m) == Backdrop([m EXCEPT !.visible = FALSE], "remove")

\* show.bs.modal marks the body even when nothing is shown then.
Show(m, prevented) ==
  LET marked == [m EXCEPT !.open = TRUE] IN
  IF m.isShown THEN marked
  ELSE IF prevented THEN [marked EXCEPT !.calm = FALSE]
  ELSE Backdrop([marked EXCEPT
                   !.isShown = TRUE, !.escapes = @ + (IF m.keyboard THEN 1 ELSE 0),
                   !.dismiss = @ + 1, !.calm = @ /\ m.hiding = 0 /\ m.waiting = {}],
                "reveal")

Hide(m, prevented) ==
  IF ~m.isShown \/ prevented THEN m
  ELSE LET hidden == [NoHandlers(m) EXCEPT !.isShown = FALSE, !.in = FALSE,
                                           !.calm = @ /\ m.waiting = {}]
       IN IF m.fade THEN [hidden EXCEPT !.hiding = @ + 1] ELSE HideModal(hidden)

-----------------------------------------------------------------------------
(* Events.                                                                 *)

\* Bound: there is a backdrop for the dialog and for every callback that may add one.
Room == modal.isShown \/ Cardinality(modal.backs) + modal.hiding < Cardinality(Back)

\* A toggler is clicked: it always shows, since it looks for its object under another
\* name than the one it is kept under (1064, 1039).
Click(prevented) == Room /\ modal' = Show(modal, prevented)

\* modal("toggle") and modal("hide").
Script(prevented) ==
  /\ modal.hiding < MaxHides
  /\ \/ Room /\ modal' = IF modal.isShown THEN Hide(modal, prevented)
                                           ELSE Show(modal, prevented)
     \/ modal' = Hide(modal, prevented)

\* A key, a click on the cross, and a click beside the dialog.
Dismiss(prevented) ==
  /\ modal.hiding < MaxHides
  /\ \/ modal.escapes > 0
     \/ modal.visible /\ modal.dismiss > 0
  /\ modal' = Hide(modal, prevented)

\* The transition of the dialog or of something in it ends: the events of elements in it
\* reach it too.
DialogEnd ==
  /\ modal.hiding > 0
  /\ modal' = LET once == HideModal([modal EXCEPT !.hiding = 0])
              IN IF modal.hiding = 1 THEN once ELSE HideModal(once)

BackdropEnd(b) ==
  LET mine == {w \in modal.waiting : w[1] = b} IN
  /\ mine # {}
  /\ modal' = Called([modal EXCEPT !.waiting = @ \ mine], {w[2] : w \in mine})

Next == \/ DialogEnd
        \/ \E b \in Back : BackdropEnd(b)
        \/ \E prevented \in BOOLEAN : Click(prevented) \/ Script(prevented) \/ Dismiss(prevented)

Spec == Init /\ [][Next]_modal /\ WF_modal(DialogEnd) /\ \A b \in Back : WF_modal(BackdropEnd(b))
-----------------------------------------------------------------------------
(* Properties.                                                             *)

AtRest == modal.hiding = 0 /\ modal.waiting = {}
One(condition) == IF condition THEN 1 ELSE 0

\* At rest the dialog, the body, the backdrop and the handlers agree on whether it is
\* shown, though it is shown and hidden, from several places, while it still slides in or
\* has been asked to before (bootstrap.js 878-1025, 1075-1077).
ModalWhole ==
  modal.calm /\ AtRest =>
    /\ modal.visible = modal.isShown /\ modal.in = modal.isShown /\ modal.open = modal.isShown
    /\ Cardinality(modal.backs) = One(modal.isShown /\ modal.drop # "none")
    /\ modal.escapes = One(modal.isShown /\ modal.keyboard)
    /\ modal.dismiss = One(modal.isShown) + One(modal.isShown /\ modal.drop # "none")
    /\ modal.guards = One(modal.isShown)

\* A dialog that is hidden disappears with its backdrop, unless it is shown again.
Leaving == modal.calm /\ ~modal.isShown
Left == modal.isShown \/ ~modal.calm \/ (~modal.visible /\ modal.backs = {} /\ ~modal.open)
Disappears == Leaving ~> Left
=============================================================================
