---------------------------- MODULE WidgetProofs ----------------------------
(***************************************************************************)
(* The invariants of MCWidgets for widgets of any size: each widget has an *)
(* inductive invariant, which says how far what it has begun has come, and *)
(* the lemmas of a widget go through its methods and events.  The theorems *)
(* are at the end.  They rest on WidgetAssumption.                         *)
(***************************************************************************)
EXTENDS MCWidgets, FiniteSetTheorems, SequenceTheorems, WellFoundedInduction, TLAPS

\* Every module has the operator of FiniteSets as its own.
LEMMA Counting ==
  \A S : /\ Car!Cardinality(S) = Cardinality(S) /\ Pan!Cardinality(S) = Cardinality(S)
         /\ Mod!Cardinality(S) = Cardinality(S) /\ Tabs!Cardinality(S) = Cardinality(S)
         /\ Spy!Cardinality(S) = Cardinality(S)
  BY DEF Cardinality, Car!Cardinality, Pan!Cardinality, Mod!Cardinality, Tabs!Cardinality,
         Spy!Cardinality

-----------------------------------------------------------------------------
(* The tooltip.                                                            *)

\* A tip whose timer has run out is visible as the pointer is, and a callback still to come
\* can only take out a tip that is not wanted.
TipWaits(t) ==
  t.calm /\ t.timer = "none" =>
    /\ t.in <=> t.hover = "in"
    /\ t.hover = "in" => t.attached
    /\ t.hover # "in" /\ ~t.pend => ~t.attached
TipInv == widget \in Tip!State /\ TipWaits(widget)

LEMMA TipInit == Tip!Init => TipInv
  BY DEF Tip!Init, Tip!Made, TipInv, Tip!State, TipWaits

LEMMA TipShow ==
  ASSUME NEW t \in Tip!State, NEW prevented \in BOOLEAN, t.hover = "in"
  PROVE  Tip!Show(t, prevented) \in Tip!State /\ TipWaits(Tip!Show(t, prevented))
  BY DEF Tip!Show, Tip!State, TipWaits

LEMMA TipHide ==
  ASSUME NEW t \in Tip!State, NEW prevented \in BOOLEAN, t.hover # "in"
  PROVE  Tip!Hide(t, prevented) \in Tip!State /\ TipWaits(Tip!Hide(t, prevented))
  BY DEF Tip!Hide, Tip!Complete, Tip!State, TipWaits

LEMMA TipEnter ==
  ASSUME NEW t \in Tip!State, NEW prevented \in BOOLEAN
  PROVE  Tip!Enter(t, prevented) \in Tip!State /\ TipWaits(Tip!Enter(t, prevented))
<1> DEFINE entered == [t EXCEPT !.hover = "in", !.timer = "none", !.calm = TRUE]
<1>1. entered \in Tip!State /\ entered.hover = "in"
  BY DEF Tip!State
<1>2. CASE t.slow
  BY <1>2 DEF Tip!Enter, Tip!State, TipWaits
<1>3. CASE ~t.slow
  <2>1. Tip!Enter(t, prevented) = Tip!Show(entered, prevented) BY <1>3 DEF Tip!Enter
  <2> HIDE DEF entered
  <2> QED BY <1>1, <2>1, TipShow
<1> QED BY <1>2, <1>3

LEMMA TipLeave ==
  ASSUME NEW t \in Tip!State, NEW prevented \in BOOLEAN
  PROVE  Tip!Leave(t, prevented) \in Tip!State /\ TipWaits(Tip!Leave(t, prevented))
<1> DEFINE left == [t EXCEPT !.hover = "out", !.timer = "none", !.calm = TRUE]
<1>1. left \in Tip!State /\ left.hover # "in"
  BY DEF Tip!State
<1>2. CASE t.lingers
  BY <1>2 DEF Tip!Leave, Tip!State, TipWaits
<1>3. CASE ~t.lingers
  <2>1. Tip!Leave(t, prevented) = Tip!Hide(left, prevented) BY <1>3 DEF Tip!Leave
  <2> HIDE DEF left
  <2> QED BY <1>1, <2>1, TipHide
<1> QED BY <1>2, <1>3

\* A call by a script gives up the claim of the last event.
LEMMA TipInterfere ==
  ASSUME NEW t \in Tip!State, Tip!Interfere(t)
  PROVE  TipInv'
  BY DEF Tip!Interfere, TipInv, Tip!State, TipWaits

LEMMA TipMethods ==
  ASSUME NEW t \in Tip!State, NEW prevented \in BOOLEAN
  PROVE  Tip!Show(t, prevented) \in Tip!State /\ Tip!Hide(t, prevented) \in Tip!State
  BY DEF Tip!Show, Tip!Hide, Tip!Complete, Tip!State

LEMMA TipNext == TipInv /\ Tip!Next => TipInv'
<1> SUFFICES ASSUME TipInv, Tip!Next PROVE TipInv'
  OBVIOUS
<1>0. widget \in Tip!State BY DEF TipInv
<1>1. CASE Tip!TransitionEnd
  BY <1>1 DEF Tip!TransitionEnd, Tip!Complete, TipInv, Tip!State, TipWaits
<1>2. CASE Tip!Destroy
  <2>1. \A t \in Tip!State : [t EXCEPT !.gone = TRUE] \in Tip!State
    BY DEF Tip!State
  <2> QED BY <1>0, <1>2, <2>1, TipMethods, TipInterfere DEF Tip!Destroy
<1>3. CASE Tip!Create
  BY <1>0, <1>3 DEF Tip!Create, Tip!Made, TipInv, Tip!State, TipWaits
<1>4. ASSUME NEW prevented \in BOOLEAN, Tip!Pointer(prevented) PROVE TipInv'
  BY <1>0, <1>4, TipEnter, TipLeave DEF Tip!Pointer, Tip!Toggle, TipInv
<1>5. ASSUME NEW prevented \in BOOLEAN, Tip!Timeout(prevented) PROVE TipInv'
  <2> DEFINE t == [widget EXCEPT !.timer = "none"]
  <2>1. t \in Tip!State BY <1>0 DEF Tip!State
  <2>2. \/ t.hover = "in" /\ widget' = Tip!Show(t, prevented)
        \/ t.hover = "out" /\ widget' = Tip!Hide(t, prevented)
    BY <1>5 DEF Tip!Timeout
  <2> HIDE DEF t
  <2> QED BY <2>1, <2>2, TipShow, TipHide DEF TipInv
<1>6. ASSUME NEW prevented \in BOOLEAN, Tip!Script(prevented) PROVE TipInv'
  <2>1. CASE Tip!Interfere(Tip!Show(widget, prevented)) \/ Tip!Interfere(Tip!Hide(widget, prevented))
    BY <1>0, <2>1, TipMethods, TipInterfere
  <2>2. CASE \/ widget' = [widget EXCEPT !.enabled = ~@]
             \/ widget' = [widget EXCEPT !.content = ~@]
    BY <2>2 DEF TipInv, Tip!State, TipWaits
  <2> QED BY <1>6, <2>1, <2>2 DEF Tip!Script
<1> QED BY <1>1, <1>2, <1>3, <1>4, <1>5, <1>6 DEF Tip!Next
-----------------------------------------------------------------------------
(* The carousel.                                                           *)

NoneIn(s) == \E k \in 1 .. Len(s) : s[k] = Car!None
Timed(c) == c.timers \subseteq {c.interval}

\* One item is shown.  A slide is that of this item to another one.
Single(c) ==
  /\ \E i \in Car!Item(c.n) : c.active = {i}
  /\ \/ c.moving = {}
     \/ c.sliding /\ \E m \in c.moving : c.moving = {m} /\ c.active = {m[1]} /\ m[1] # m[2]

\* A slide that has not been announced yet has turned the indicators off, and the first
\* handler that waits is the one that lights one; otherwise one is lit, or about to be.
Unlit(c) ==
  /\ c.lit = {} /\ c.slid # <<>> /\ Head(c.slid) = Car!None /\ ~NoneIn(Tail(c.slid))
  /\ c.run # <<>> => c.moving # {} /\ ~NoneIn(c.run)
Lighting(c) ==
  /\ ~NoneIn(c.slid) /\ (~c.sliding => c.slid = <<>>)
  /\ \/ c.lit = c.active /\ ~NoneIn(c.run)
     \/ c.lit = {} /\ c.run # <<>> /\ Head(c.run) = Car!None /\ ~NoneIn(Tail(c.run))
Announced(c) ==
  c.calm =>
    /\ c.ticks <= 1 /\ (c.moving # {} => c.ticks = 0)
    /\ IF c.moving # {} \/ c.ticks > 0 THEN Unlit(c) ELSE Lighting(c)

CarouselOf(n, c) == c \in Car!State(n) /\ Timed(c) /\ Single(c) /\ Announced(c)
CarInv == \E n \in Sizes : CarouselOf(n, widget)

USE DEF Car!None, Car!Item

LEMMA NoneInNothing == ~NoneIn(<<>>)
  BY DEF NoneIn

LEMMA NoneAppended ==
  ASSUME NEW S, NEW s \in Seq(S), NEW x \in S
  PROVE  NoneIn(Append(s, x)) <=> NoneIn(s) \/ x = Car!None
<1>1. /\ Len(Append(s, x)) = Len(s) + 1 /\ Len(s) \in Nat
      /\ Append(s, x)[Len(s) + 1] = x /\ \A k \in 1 .. Len(s) : Append(s, x)[k] = s[k]
  BY AppendProperties, LenProperties
<1> QED BY <1>1 DEF NoneIn

LEMMA NoneAdded ==
  ASSUME NEW S, NEW s \in Seq(S), NEW x \in S
  PROVE  /\ Append(s, x) # <<>> /\ Head(Append(s, x)) = IF s = <<>> THEN x ELSE Head(s)
         /\ NoneIn(Append(s, x)) <=> NoneIn(s) \/ x = Car!None
         /\ NoneIn(Tail(Append(s, x))) <=> s # <<>> /\ (NoneIn(Tail(s)) \/ x = Car!None)
<1>1. /\ Append(s, x) # <<>> /\ Head(Append(s, x)) = IF s = <<>> THEN x ELSE Head(s)
      /\ Tail(Append(s, x)) = IF s = <<>> THEN <<>> ELSE Append(Tail(s), x)
  BY AppendProperties, HeadTailAppend
<1>2. CASE s = <<>>
  BY <1>1, <1>2, NoneAppended, NoneInNothing
<1>3. CASE s # <<>>
  <2>1. Tail(s) \in Seq(S) BY <1>3, HeadTailProperties
  <2>2. NoneIn(Append(Tail(s), x)) <=> NoneIn(Tail(s)) \/ x = Car!None
    BY <2>1, NoneAppended
  <2>3. NoneIn(Append(s, x)) <=> NoneIn(s) \/ x = Car!None
    BY NoneAppended
  <2>4. Tail(Append(s, x)) = Append(Tail(s), x) BY <1>1, <1>3
  <2> QED BY <1>1, <1>3, <2>2, <2>3, <2>4
<1> QED BY <1>2, <1>3

LEMMA NoneTaken ==
  ASSUME NEW S, NEW s \in Seq(S), s # <<>>
  PROVE  /\ Tail(s) \in Seq(S) /\ Head(s) \in S
         /\ NoneIn(s) <=> Head(s) = Car!None \/ NoneIn(Tail(s))
  BY DEF NoneIn

LEMMA ActiveOne ==
  ASSUME NEW c, NEW i \in Int, c.active = {i}
  PROVE  Car!Active(c) = i
  BY DEF Car!Active, Car!Min

\* cycle and pause change the timer and nothing else that matters.
Still(c, d) ==
  /\ d.n = c.n /\ d.wrap = c.wrap /\ d.auto = c.auto /\ d.animated = c.animated
  /\ d.sliding = c.sliding /\ d.calm = c.calm /\ d.active = c.active /\ d.lit = c.lit
  /\ d.moving = c.moving /\ d.slid = c.slid /\ d.run = c.run /\ d.ticks = c.ticks

LEMMA CarCycle ==
  ASSUME NEW n \in Sizes, NEW c \in Car!State(n), Timed(c), NEW event \in BOOLEAN
  PROVE  /\ Car!Cycle(c, event) \in Car!State(n)
         /\ Timed(Car!Cycle(c, event)) /\ Still(c, Car!Cycle(c, event))
<1> DEFINE paused == event /\ c.paused
           stopped == [Car!Clear(c) EXCEPT !.paused = paused]
<1>1. stopped \in Car!State(n) /\ Still(c, stopped) /\ stopped.timers = {}
  BY DEF Car!Clear, Car!State, Still, Timed
<1>2. \A d \in Car!State(n) : d.timers = {} =>
        /\ Car!SetInterval(d) \in Car!State(n)
        /\ Timed(Car!SetInterval(d)) /\ Still(d, Car!SetInterval(d))
  <2> SUFFICES ASSUME NEW d \in Car!State(n), d.timers = {}
               PROVE  /\ Car!SetInterval(d) \in Car!State(n)
                      /\ Timed(Car!SetInterval(d)) /\ Still(d, Car!SetInterval(d))
    OBVIOUS
  <2> DEFINE t == CHOOSE t \in Timer : t \notin d.timers
  <2>1. t \in Timer BY WidgetAssumption
  <2>2. Car!SetInterval(d) = [d EXCEPT !.timers = @ \cup {t}, !.interval = t]
    BY DEF Car!SetInterval
  <2> HIDE DEF t
  <2>3. /\ Still(d, Car!SetInterval(d))
        /\ Car!SetInterval(d).timers = d.timers \cup {t} /\ Car!SetInterval(d).interval = t
    BY <2>2 DEF Car!State, Still
  <2>4. d.timers \cup {t} \in SUBSET Timer BY <2>1 DEF Car!State
  <2>5. Car!SetInterval(d) \in Car!State(n) BY <2>1, <2>2, <2>4 DEF Car!State
  <2> QED BY <2>3, <2>5 DEF Timed
<1>3. Car!Cycle(c, event) = IF c.auto /\ ~paused THEN Car!SetInterval(stopped) ELSE stopped
  BY DEF Car!Cycle
<1> HIDE DEF stopped
<1> QED BY <1>1, <1>2, <1>3 DEF Timed, Still

LEMMA CarPause ==
  ASSUME NEW n \in Sizes, NEW c \in Car!State(n), Timed(c), NEW event \in BOOLEAN
  PROVE  /\ Car!Pause(c, event) \in Car!State(n)
         /\ Timed(Car!Pause(c, event)) /\ Still(c, Car!Pause(c, event))
<1> DEFINE paused == [c EXCEPT !.paused = event => @]
           cycled == IF c.moving # {} THEN Car!Cycle(paused, TRUE) ELSE paused
<1>1. paused \in Car!State(n) /\ Timed(paused) /\ Still(c, paused)
  BY DEF Car!State, Timed, Still
<1>2. cycled \in Car!State(n) /\ Timed(cycled) /\ Still(c, cycled)
  <2> HIDE DEF paused
  <2> QED BY <1>1, CarCycle DEF Still
<1>3. Car!Pause(c, event) = [Car!Clear(cycled) EXCEPT !.interval = NoTimer]
  BY DEF Car!Pause
<1> HIDE DEF cycled
<1>4. Car!Pause(c, event) = [cycled EXCEPT !.timers = cycled.timers \ {cycled.interval},
                                           !.interval = NoTimer]
  BY <1>2, <1>3 DEF Car!Clear, Car!State
<1>5. cycled.timers \ {cycled.interval} = {} BY <1>2 DEF Timed
<1>6. Car!Pause(c, event) = [cycled EXCEPT !.timers = {}, !.interval = NoTimer]
  BY <1>4, <1>5
<1> DEFINE d == [cycled EXCEPT !.timers = {}, !.interval = NoTimer]
<1>7. d \in Car!State(n) /\ d.timers = {} BY <1>2 DEF Car!State
<1>8. Still(cycled, d) BY <1>2 DEF Car!State, Still
<1> HIDE DEF d
<1>9. Timed(d) /\ Still(c, d) BY <1>2, <1>7, <1>8 DEF Timed, Still
<1> QED BY <1>6, <1>7, <1>9 DEF d

\* What is said of items and indicators is said of what stays.
LEMMA CarStill ==
  ASSUME NEW n \in Sizes, NEW c, NEW d \in Car!State(n), Timed(d), Still(c, d), CarouselOf(n, c)
  PROVE  CarouselOf(n, d)
  BY DEF CarouselOf, Still, Single, Announced, Unlit, Lighting
LEMMA CarStarted ==
  ASSUME NEW n \in Sizes, NEW c \in Car!State(n), NEW i \in 0 .. n - 1, NEW to \in 0 .. n - 1,
         c.active = {i}, to # i, c.moving = {}, c.sliding, Timed(c), c.lit = {},
         c.calm => c.ticks = 0 /\ c.slid = <<Car!None>> /\ ~NoneIn(c.run)
  PROVE  CarouselOf(n, Car!Started(c, to))
<1> DEFINE d == Car!Started(c, to)
<1>1. Car!Active(c) = i BY ActiveOne
<1>2. Head(<<Car!None>>) = Car!None /\ ~NoneIn(Tail(<<Car!None>>)) /\ <<Car!None>> # <<>>
  BY DEF NoneIn
<1>3. CASE c.animated
  <2>1. d = [c EXCEPT !.moving = {<<i, to>>}] BY <1>1, <1>3 DEF Car!Started
  <2>0. {<<i, to>>} \in SUBSET ((0 .. n - 1) \X (0 .. n - 1)) OBVIOUS
  <2>2. d \in Car!State(n) BY <2>0, <2>1 DEF Car!State
  <2>3. /\ d.active = {i} /\ d.moving = {<<i, to>>} /\ d.sliding /\ d.lit = {} /\ d.n = n
        /\ d.calm = c.calm /\ d.ticks = c.ticks /\ d.slid = c.slid /\ d.run = c.run
        /\ d.timers = c.timers /\ d.interval = c.interval
    BY <2>1 DEF Car!State
  <2> HIDE DEF d
  <2>4. Timed(d) BY <2>3 DEF Timed
  <2>5. Single(d) BY <2>3 DEF Single
  <2>6. Announced(d)
    <3>1. d.calm => d.ticks = 0 /\ d.slid = <<Car!None>> /\ ~NoneIn(d.run) BY <2>3
    <3>3. \A w : w = <<Car!None>> => Head(w) = Car!None /\ ~NoneIn(Tail(w)) /\ w # <<>>
      BY <1>2
    <3>4. d.calm => Head(d.slid) = Car!None /\ ~NoneIn(Tail(d.slid)) /\ d.slid # <<>>
      BY <3>1, <3>3
    <3>2. d.calm => Unlit(d) BY <2>3, <3>1, <3>4 DEF Unlit
    <3> QED BY <2>3, <3>1, <3>2 DEF Announced
  <2>7. CarouselOf(n, d) BY <2>2, <2>4, <2>5, <2>6 DEF CarouselOf
  <2> QED BY <2>7 DEF d
<1>4. CASE ~c.animated
  <2>1. d = [c EXCEPT !.active = {to}, !.sliding = FALSE, !.lit = {to}, !.slid = <<>>]
    BY <1>1, <1>4 DEF Car!Started
  <2>0. {to} \in SUBSET (0 .. n - 1) /\ <<>> \in Seq({Car!None} \cup 0 .. n - 1) OBVIOUS
  <2>2. d \in Car!State(n)
    <3> DEFINE e == [c EXCEPT !.active = {to}, !.lit = {to}]
    <3>1. e \in Car!State(n) BY <2>0 DEF Car!State
    <3>2. d = [e EXCEPT !.sliding = FALSE, !.slid = <<>>] BY <2>1 DEF Car!State
    <3> HIDE DEF d, e
    <3> QED BY <2>0, <3>1, <3>2 DEF Car!State
  <2>3. /\ d.active = {to} /\ d.moving = {} /\ ~d.sliding /\ d.lit = {to} /\ d.n = n
        /\ d.calm = c.calm /\ d.ticks = c.ticks /\ d.slid = <<>> /\ d.run = c.run
        /\ d.timers = c.timers /\ d.interval = c.interval
    BY <2>1 DEF Car!State
  <2> HIDE DEF d
  <2>4. Timed(d) BY <2>3 DEF Timed
  <2>5. Single(d) BY <2>3 DEF Single
  <2>6. Announced(d) BY <2>3, NoneInNothing DEF Announced, Lighting
  <2>7. CarouselOf(n, d) BY <2>2, <2>4, <2>5, <2>6 DEF CarouselOf
  <2> QED BY <2>7 DEF d
<1> QED BY <1>3, <1>4

LEMMA CarSlide ==
  ASSUME NEW n \in Sizes, NEW c, CarouselOf(n, c), c.calm => ~NoneIn(c.run), c.moving = {},
         ~c.sliding, NEW to \in {Car!None} \cup 0 .. n - 1, NEW prevented \in BOOLEAN
  PROVE  CarouselOf(n, Car!Slide(c, to, prevented))
<1> DEFINE cycling == c.interval # NoTimer
           sliding == [c EXCEPT !.sliding = TRUE]
           held == IF cycling THEN Car!Pause(sliding, FALSE) ELSE sliding
           dark == [held EXCEPT !.lit = {}, !.slid = Append(@, Car!None),
                                !.calm = @ /\ ~prevented /\ c.ticks = 0]
           started == Car!Started(dark, to)
<1>1. Car!Slide(c, to, prevented) =
        IF to = Car!None THEN c
        ELSE IF to \in c.active THEN held
        ELSE IF prevented THEN dark
        ELSE IF cycling THEN Car!Cycle(started, FALSE) ELSE started
  BY DEF Car!Slide
<1>2. c \in Car!State(n) /\ c.n = n BY DEF CarouselOf, Car!State
<1>3. PICK i \in 0 .. n - 1 : c.active = {i} BY <1>2 DEF CarouselOf, Single
<1>4. sliding \in Car!State(n) /\ CarouselOf(n, sliding)
  <2>1. /\ sliding \in Car!State(n) /\ sliding.active = c.active /\ sliding.moving = c.moving
        /\ sliding.sliding /\ sliding.lit = c.lit /\ sliding.n = n /\ sliding.calm = c.calm
        /\ sliding.ticks = c.ticks /\ sliding.slid = c.slid /\ sliding.run = c.run
        /\ sliding.timers = c.timers /\ sliding.interval = c.interval
    BY <1>2 DEF Car!State
  <2> HIDE DEF sliding
  <2> QED BY <1>2, <2>1 DEF CarouselOf, Timed, Single, Announced, Unlit, Lighting
<1>5. held \in Car!State(n) /\ Timed(held) /\ Still(sliding, held)
  <2>1. Timed(sliding) BY <1>4 DEF CarouselOf
  <2>2. Still(sliding, sliding) BY DEF Still
  <2> HIDE DEF sliding
  <2> QED BY <1>4, <2>1, <2>2, CarPause
<1>6. /\ dark \in Car!State(n) /\ Timed(dark) /\ dark.active = {i} /\ dark.moving = {}
      /\ dark.sliding /\ dark.lit = {} /\ dark.run = c.run /\ dark.ticks = c.ticks
      /\ dark.calm = (c.calm /\ ~prevented /\ c.ticks = 0)
      /\ dark.slid = Append(c.slid, Car!None) /\ dark.n = n
  <2>1. /\ held.active = c.active /\ held.moving = c.moving /\ held.sliding /\ held.n = n
        /\ held.calm = c.calm /\ held.slid = c.slid /\ held.run = c.run /\ held.ticks = c.ticks
    BY <1>2, <1>5 DEF Still, Car!State
  <2>2. Append(c.slid, Car!None) \in Seq({Car!None} \cup 0 .. n - 1)
    BY <1>2 DEF Car!State
  <2> HIDE DEF held
  <2> DEFINE calm == c.calm /\ ~prevented /\ c.ticks = 0
  <2>3. dark = [held EXCEPT !.lit = {}, !.slid = Append(c.slid, Car!None), !.calm = calm]
    BY <1>5, <2>1 DEF Car!State
  <2>4. calm \in BOOLEAN /\ {} \in SUBSET (0 .. n - 1) OBVIOUS
  <2> HIDE DEF dark, calm
  <2>5. dark \in Car!State(n) BY <1>5, <2>2, <2>3, <2>4 DEF Car!State
  <2>6. /\ dark.active = held.active /\ dark.moving = held.moving /\ dark.sliding = held.sliding
        /\ dark.lit = {} /\ dark.run = held.run /\ dark.ticks = held.ticks /\ dark.calm = calm
        /\ dark.slid = Append(c.slid, Car!None) /\ dark.n = held.n
        /\ dark.timers = held.timers /\ dark.interval = held.interval
    BY <1>5, <2>3 DEF Car!State
  <2>7. Timed(dark) BY <1>5, <2>6 DEF Timed
  <2> QED BY <1>2, <1>3, <2>1, <2>5, <2>6, <2>7 DEF calm
<1>7. dark.calm => dark.ticks = 0 /\ dark.slid = <<Car!None>> /\ ~NoneIn(dark.run)
  <2> SUFFICES ASSUME dark.calm PROVE dark.ticks = 0 /\ dark.slid = <<Car!None>> /\ ~NoneIn(dark.run)
    OBVIOUS
  <2>1. c.calm /\ c.ticks = 0 BY <1>6
  <2>2. c.slid = <<>> BY <2>1 DEF CarouselOf, Announced, Lighting
  <2> HIDE DEF dark
  <2> QED BY <1>6, <2>1, <2>2
<1> HIDE DEF held, dark, sliding
<1>8. CASE to \in c.active
  BY <1>1, <1>4, <1>5, <1>8, CarStill
<1>9. CASE to # Car!None /\ to \notin c.active /\ prevented
  <2>1. ~dark.calm BY <1>6, <1>9
  <2>2. Single(dark) BY <1>6 DEF Single
  <2> QED BY <1>1, <1>6, <1>9, <2>1, <2>2 DEF CarouselOf, Announced
<1>10. CASE to # Car!None /\ to \notin c.active /\ ~prevented
  <2>1. to \in 0 .. n - 1 /\ to # i BY <1>3, <1>10
  <2>2. CarouselOf(n, started) BY <1>6, <1>7, <2>1, CarStarted
  <2> HIDE DEF started
  <2>3. started \in Car!State(n) /\ Timed(started) BY <2>2 DEF CarouselOf
  <2>4. CarouselOf(n, Car!Cycle(started, FALSE)) BY <2>2, <2>3, CarCycle, CarStill
  <2> QED BY <1>1, <1>10, <2>2, <2>4
<1> QED BY <1>1, <1>8, <1>9, <1>10

LEMMA CarStep ==
  ASSUME NEW n \in Sizes, NEW c, CarouselOf(n, c), c.calm => ~NoneIn(c.run),
         NEW dir \in {"next", "prev"}, NEW prevented \in BOOLEAN
  PROVE  CarouselOf(n, Car!Step(c, dir, prevented))
<1>1. n \in Nat \ {0} /\ c.n = n BY WidgetAssumption DEF CarouselOf, Car!State
<1>2. PICK i \in 0 .. n - 1 : c.active = {i} BY <1>1 DEF CarouselOf, Single
<1>3. Car!Active(c) = i BY <1>2, ActiveOne
<1>4. Car!Beside(c, dir) \in {Car!None} \cup 0 .. n - 1 BY <1>1, <1>3 DEF Car!Beside
<1>5. ~c.sliding => c.moving = {} BY DEF CarouselOf, Single
<1> QED BY <1>4, <1>5, CarSlide DEF Car!Step

LEMMA CarRestart ==
  ASSUME NEW n \in Sizes, NEW c, CarouselOf(n, c), NEW event \in BOOLEAN
  PROVE  /\ CarouselOf(n, Car!Pause(c, event)) /\ CarouselOf(n, Car!Cycle(c, event))
         /\ CarouselOf(n, Car!Cycle(Car!Pause(c, event), event))
<1>1. \A d : CarouselOf(n, d) => CarouselOf(n, Car!Cycle(d, event))
  BY CarCycle, CarStill DEF CarouselOf
<1>2. CarouselOf(n, Car!Pause(c, event))
  BY CarPause, CarStill DEF CarouselOf
<1> QED BY <1>1, <1>2

LEMMA CarTo ==
  ASSUME NEW n \in Sizes, NEW c, CarouselOf(n, c), c.calm => ~NoneIn(c.run),
         NEW pos \in 0 .. n - 1, NEW prevented \in BOOLEAN
  PROVE  CarouselOf(n, Car!To(c, pos, prevented))
<1>1. CASE c.sliding
  <2> DEFINE d == [c EXCEPT !.slid = Append(@, pos)]
  <2>1. c \in Car!State(n) /\ c.slid \in Seq({Car!None} \cup 0 .. n - 1)
    BY DEF CarouselOf, Car!State
  <2>2. Append(c.slid, pos) \in Seq({Car!None} \cup 0 .. n - 1) BY <2>1
  <2>3. /\ d \in Car!State(n) /\ d.n = c.n /\ d.active = c.active /\ d.moving = c.moving
        /\ d.sliding /\ d.lit = c.lit /\ d.run = c.run /\ d.ticks = c.ticks /\ d.calm = c.calm
        /\ d.slid = Append(c.slid, pos) /\ d.timers = c.timers /\ d.interval = c.interval
    BY <1>1, <2>1, <2>2 DEF Car!State
  <2>4. /\ d.slid # <<>> /\ Head(d.slid) = IF c.slid = <<>> THEN pos ELSE Head(c.slid)
        /\ NoneIn(d.slid) <=> NoneIn(c.slid)
        /\ NoneIn(Tail(d.slid)) <=> c.slid # <<>> /\ NoneIn(Tail(c.slid))
    BY <2>1, <2>3, NoneAdded
  <2>5. Car!To(c, pos, prevented) = d BY <1>1 DEF Car!To
  <2> HIDE DEF d
  <2>6. Single(d) /\ Timed(d) BY <1>1, <2>3 DEF CarouselOf, Single, Timed
  <2>7. Unlit(c) => Unlit(d) BY <2>3, <2>4 DEF Unlit
  <2>8. Lighting(c) => Lighting(d) BY <1>1, <2>3, <2>4 DEF Lighting
  <2>9. Announced(d) BY <2>3, <2>7, <2>8 DEF CarouselOf, Announced
  <2> QED BY <2>3, <2>5, <2>6, <2>9 DEF CarouselOf
<1>2. CASE ~c.sliding /\ Car!Active(c) = pos
  BY <1>2, CarRestart DEF Car!To
<1>3. CASE ~c.sliding /\ Car!Active(c) # pos
  <2>1. c.moving = {} BY <1>3 DEF CarouselOf, Single
  <2> QED BY <1>3, <2>1, CarSlide DEF Car!To
<1> QED BY <1>1, <1>2, <1>3

LEMMA CarInit == Car!Init => CarInv
<1> SUFFICES ASSUME Car!Init PROVE CarInv
  OBVIOUS
<1>1. PICK n \in Sizes : \E wrap, auto, animated \in BOOLEAN : \E i \in 0 .. n - 1 :
        widget = [n |-> n, wrap |-> wrap, auto |-> auto, animated |-> animated,
                  active |-> {i}, lit |-> {i}, moving |-> {}, sliding |-> FALSE,
                  paused |-> FALSE, interval |-> NoTimer, timers |-> {}, slid |-> <<>>,
                  run |-> <<>>, ticks |-> 0, calm |-> TRUE]
  BY DEF Car!Init
<1>2. PICK i \in 0 .. n - 1 : /\ widget.n = n /\ widget.active = {i} /\ widget.lit = {i}
                              /\ widget.moving = {} /\ widget.timers = {} /\ ~widget.sliding
                              /\ widget.slid = <<>> /\ widget.run = <<>> /\ widget.ticks = 0
  BY <1>1
<1>3. widget \in Car!State(n)
  <2>1. <<>> \in Seq({Car!None} \cup 0 .. n - 1) /\ {} \in SUBSET ((0 .. n - 1) \X (0 .. n - 1))
    OBVIOUS
  <2>2. 0 \in 0 .. MaxTicks BY WidgetAssumption
  <2> QED BY <1>1, <2>1, <2>2 DEF Car!State
<1>4. CarouselOf(n, widget)
  BY <1>2, <1>3, NoneInNothing DEF CarouselOf, Timed, Single, Announced, Lighting
<1> QED BY <1>4 DEF CarInv

LEMMA CarTransitionEnd ==
  ASSUME NEW n \in Sizes, CarouselOf(n, widget), Car!TransitionEnd
  PROVE  CarouselOf(n, widget')
<1>0. widget \in Car!State(n) /\ widget.n = n /\ widget.run = <<>>
  BY DEF CarouselOf, Car!State, Car!TransitionEnd, Car!Event
<1>1. PICK m \in widget.moving :
        widget' = [widget EXCEPT !.moving = @ \ {m}, !.sliding = FALSE,
                                 !.active = (@ \cup {m[2]}) \ {m[1]}, !.ticks = @ + 1]
  BY DEF Car!TransitionEnd, Car!Event
<1>2. widget.moving = {m} /\ widget.active = {m[1]} /\ m[1] # m[2]
  BY DEF CarouselOf, Single
<1>3. m[1] \in 0 .. n - 1 /\ m[2] \in 0 .. n - 1 BY <1>0 DEF Car!State
<1>4. {m[2]} = (widget.active \cup {m[2]}) \ {m[1]} /\ {} = widget.moving \ {m}
  BY <1>2
<1>5. widget' = [widget EXCEPT !.moving = {}, !.sliding = FALSE, !.active = {m[2]},
                               !.ticks = @ + 1]
  BY <1>0, <1>1, <1>4 DEF Car!State
<1>6. widget.ticks + 1 \in 0 .. MaxTicks
  BY <1>0, WidgetAssumption DEF Car!TransitionEnd, Car!State
<1>7. {m[2]} \in SUBSET (0 .. n - 1) /\ {} \in SUBSET ((0 .. n - 1) \X (0 .. n - 1)) BY <1>3
<1>8. widget' \in Car!State(n) BY <1>0, <1>5, <1>6, <1>7 DEF Car!State
<1>9. /\ widget'.active = {m[2]} /\ widget'.moving = {} /\ ~widget'.sliding /\ widget'.n = n
      /\ widget'.lit = widget.lit /\ widget'.slid = widget.slid /\ widget'.run = <<>>
      /\ widget'.ticks = widget.ticks + 1 /\ widget'.calm = widget.calm
      /\ widget'.timers = widget.timers /\ widget'.interval = widget.interval
  BY <1>0, <1>5 DEF Car!State
<1>10. Single(widget') /\ Timed(widget') BY <1>3, <1>9 DEF CarouselOf, Single, Timed
<1>11. widget.calm => Unlit(widget) /\ widget.ticks = 0
  BY <1>2 DEF CarouselOf, Announced
<1>12. widget.calm => Unlit(widget') BY <1>9, <1>11 DEF Unlit
<1>13. Announced(widget') BY <1>9, <1>11, <1>12 DEF Announced
<1> QED BY <1>8, <1>10, <1>13 DEF CarouselOf

LEMMA CarSlid ==
  ASSUME NEW n \in Sizes, CarouselOf(n, widget), Car!Slid
  PROVE  CarouselOf(n, widget')
<1>0. /\ widget \in Car!State(n) /\ widget.n = n /\ widget.run = <<>> /\ widget.ticks > 0
      /\ widget' = [widget EXCEPT !.ticks = @ - 1, !.run = widget.slid, !.slid = <<>>]
  BY DEF CarouselOf, Car!State, Car!Slid, Car!Event
<1>1. widget.ticks - 1 \in 0 .. MaxTicks /\ <<>> \in Seq({Car!None} \cup 0 .. n - 1)
  BY <1>0, WidgetAssumption DEF Car!State
<1>2. widget' \in Car!State(n) BY <1>0, <1>1 DEF Car!State
<1>3. /\ widget'.active = widget.active /\ widget'.moving = widget.moving /\ widget'.n = n
      /\ widget'.sliding = widget.sliding /\ widget'.lit = widget.lit /\ widget'.slid = <<>>
      /\ widget'.run = widget.slid /\ widget'.ticks = widget.ticks - 1
      /\ widget'.calm = widget.calm /\ widget'.timers = widget.timers
      /\ widget'.interval = widget.interval
  BY <1>0 DEF Car!State
<1>4. Single(widget') /\ Timed(widget') BY <1>0, <1>3 DEF CarouselOf, Single, Timed
<1>5. widget.calm => Unlit(widget) /\ widget.ticks = 1 /\ widget.moving = {}
  BY <1>0 DEF CarouselOf, Announced, Car!State
<1>6. widget.calm => Lighting(widget') /\ widget'.ticks = 0 /\ widget'.moving = {}
  BY <1>3, <1>5, NoneInNothing DEF Unlit, Lighting
<1>7. Announced(widget') BY <1>3, <1>6 DEF Announced
<1> QED BY <1>2, <1>4, <1>7 DEF CarouselOf

LEMMA CarHandle ==
  ASSUME NEW n \in Sizes, CarouselOf(n, widget), NEW prevented \in BOOLEAN, Car!Handle(prevented)
  PROVE  CarouselOf(n, widget')
<1> DEFINE c == [widget EXCEPT !.run = Tail(@)]
<1>0. /\ widget \in Car!State(n) /\ widget.n = n /\ widget.run # <<>>
      /\ widget.run \in Seq({Car!None} \cup 0 .. n - 1)
  BY DEF CarouselOf, Car!State, Car!Handle
<1>1. /\ Tail(widget.run) \in Seq({Car!None} \cup 0 .. n - 1)
      /\ Head(widget.run) \in {Car!None} \cup 0 .. n - 1
      /\ NoneIn(widget.run) <=> Head(widget.run) = Car!None \/ NoneIn(Tail(widget.run))
  BY <1>0, NoneTaken
<1>2. c \in Car!State(n) BY <1>0, <1>1 DEF Car!State
<1>3. /\ c.active = widget.active /\ c.moving = widget.moving /\ c.n = n
      /\ c.sliding = widget.sliding /\ c.lit = widget.lit /\ c.slid = widget.slid
      /\ c.run = Tail(widget.run) /\ c.ticks = widget.ticks /\ c.calm = widget.calm
      /\ c.timers = widget.timers /\ c.interval = widget.interval
  BY <1>0 DEF Car!State
<1>4. \/ Head(widget.run) = Car!None /\ widget' = Car!Light(c)
      \/ Head(widget.run) # Car!None /\ widget' = Car!To(c, Head(widget.run), prevented)
  BY DEF Car!Handle
<1> HIDE DEF c
<1>5. Single(c) /\ Timed(c) BY <1>0, <1>3 DEF CarouselOf, Single, Timed
<1>6. CASE Head(widget.run) # Car!None
  <2>1. widget.calm => ~NoneIn(c.run)
    BY <1>0, <1>1, <1>3, <1>6 DEF CarouselOf, Announced, Unlit, Lighting
  <2>2. Announced(c)
    <3>1. widget.calm /\ Unlit(widget) => Unlit(c) BY <1>0, <1>3, <2>1 DEF Unlit
    <3>2. widget.calm /\ Lighting(widget) => Lighting(c) BY <1>3, <1>6, <2>1 DEF Lighting
    <3> QED BY <1>3, <3>1, <3>2 DEF CarouselOf, Announced
  <2>3. CarouselOf(n, c) BY <1>2, <1>5, <2>2 DEF CarouselOf
  <2>4. Head(widget.run) \in 0 .. n - 1 BY <1>1, <1>6
  <2> QED BY <1>3, <1>4, <1>6, <2>1, <2>3, <2>4, CarTo
<1>7. CASE Head(widget.run) = Car!None
  <2>1. PICK i \in 0 .. n - 1 : c.active = {i} BY <1>3, <1>5 DEF Single
  <2>2. widget' = [c EXCEPT !.lit = @ \cup {i}]
    BY <1>4, <1>7, <2>1, ActiveOne DEF Car!Light
  <2>3. c.lit \cup {i} \in SUBSET (0 .. n - 1) BY <1>2 DEF Car!State
  <2>4. widget' \in Car!State(n) BY <1>2, <2>2, <2>3 DEF Car!State
  <2>5. /\ widget'.active = c.active /\ widget'.moving = c.moving /\ widget'.n = n
        /\ widget'.sliding = c.sliding /\ widget'.lit = c.lit \cup {i} /\ widget'.slid = c.slid
        /\ widget'.run = c.run /\ widget'.ticks = c.ticks /\ widget'.calm = c.calm
        /\ widget'.timers = c.timers /\ widget'.interval = c.interval
    BY <1>2, <1>3, <2>2 DEF Car!State
  <2>6. Single(widget') /\ Timed(widget') BY <1>3, <1>5, <2>5 DEF Single, Timed
  <2>7. widget.calm => /\ widget.moving = {} /\ widget.ticks = 0 /\ Lighting(widget)
                       /\ widget.lit = {} /\ ~NoneIn(Tail(widget.run))
    <3>1. widget.calm => ~(widget.moving # {} \/ widget.ticks > 0)
      BY <1>0, <1>1, <1>7 DEF CarouselOf, Announced, Unlit
    <3> QED BY <1>0, <1>1, <1>7, <3>1 DEF CarouselOf, Announced, Lighting, Car!State
  <2>8. widget.calm => Lighting(widget') BY <1>3, <2>1, <2>5, <2>7 DEF Lighting
  <2>9. Announced(widget') BY <1>3, <2>5, <2>7, <2>8 DEF Announced
  <2> QED BY <2>4, <2>6, <2>9 DEF CarouselOf
<1> QED BY <1>6, <1>7

LEMMA CarNext == CarInv /\ Car!Next => CarInv'
<1> SUFFICES ASSUME CarInv, Car!Next PROVE CarInv'
  OBVIOUS
<1>0. PICK n \in Sizes : CarouselOf(n, widget) BY DEF CarInv
<1>1. widget.run = <<>> => ~NoneIn(widget.run) BY NoneInNothing
<1>2. widget.n = n BY <1>0 DEF CarouselOf, Car!State
<1>3. CASE Car!MouseEnter \/ Car!MouseLeave \/ Car!Script
  BY <1>0, <1>3, CarRestart DEF Car!MouseEnter, Car!MouseLeave, Car!Script, Car!Event, CarInv
<1>4. CASE Car!TransitionEnd
  BY <1>0, <1>4, CarTransitionEnd DEF CarInv
<1>5. CASE Car!Slid
  BY <1>0, <1>5, CarSlid DEF CarInv
<1>6. ASSUME NEW prevented \in BOOLEAN, Car!Fires(prevented) PROVE CarInv'
  BY <1>0, <1>1, <1>6, CarStep DEF Car!Fires, Car!Event, CarInv
<1>7. ASSUME NEW prevented \in BOOLEAN, Car!Handle(prevented) PROVE CarInv'
  BY <1>0, <1>7, CarHandle DEF CarInv
<1>8. ASSUME NEW prevented \in BOOLEAN, NEW dir \in {"next", "prev"}, Car!Control(dir, prevented)
      PROVE  CarInv'
  BY <1>0, <1>1, <1>8, CarStep DEF Car!Control, Car!Event, CarInv
<1>9. ASSUME NEW prevented \in BOOLEAN, NEW pos, Car!Indicator(pos, prevented)
      PROVE  CarInv'
  BY <1>0, <1>1, <1>2, <1>9, CarTo DEF Car!Indicator, Car!Event, CarInv
<1> QED BY <1>3, <1>4, <1>5, <1>6, <1>7, <1>8, <1>9 DEF Car!Next

LEMMA CarItem == CarInv => Car!OneItem
<1> SUFFICES ASSUME CarInv PROVE Car!OneItem
  OBVIOUS
<1>1. PICK n \in Sizes : CarouselOf(n, widget) BY DEF CarInv
<1>2. Car!Cardinality(widget.active) = 1
  <2>1. PICK i : widget.active = {i} BY <1>1 DEF CarouselOf, Single
  <2>2. Cardinality({i}) = 1 BY FS_Singleton
  <2> QED BY <2>1, <2>2, Counting
<1>3. ASSUME widget.calm, widget.moving = {}, widget.ticks = 0, widget.run = <<>>
      PROVE  widget.lit = widget.active
  BY <1>1, <1>3 DEF CarouselOf, Announced, Lighting
<1> QED BY <1>2, <1>3 DEF Car!OneItem

-----------------------------------------------------------------------------
(* Collapsible panels.                                                     *)

\* An object that thinks its panel moves has a callback to come, and so has a panel with
\* the class of the transition.
PanelOk(s) ==
  /\ s \in Pan!PanelState
  /\ s.transitioning => \E k \in s.pend : k.own
  /\ "collapsing" \in s.cls => s.pend # {}
\* Whether the panel will be open when its callback has run.
Opens(s) == IF s.pend = {} THEN Pan!Open(s) ELSE \E k \in s.pend : k.to = "shown"
OneCallback(s) == s.pend # {} => ~Pan!Open(s) /\ \E k \in s.pend : s.pend = {k}

\* While nobody clicks before all is at rest, the togglers are marked as the panels will
\* be, and objects of an accordion know their parent.
Marks(c) ==
  c.calm =>
    /\ \A p \in Panel : OneCallback(c.panel[p])
    /\ c.grouped =>
         /\ \A p \in Panel : c.panel[p].obj # "alone"
         /\ \A p, q \in Panel : Opens(c.panel[p]) /\ Opens(c.panel[q]) => p = q
    /\ c.collapsed = {p \in Panel : ~Opens(c.panel[p])}
Panels(c) ==
  /\ c \in Pan!State
  /\ \A p \in Panel : PanelOk(c.panel[p])
  /\ ~c.grouped => \A p \in Panel : c.panel[p].obj # "grouped"
PanInv == Panels(widget) /\ Marks(widget)

LEMMA PanelMoved ==
  ASSUME NEW s, PanelOk(s), NEW to \in {"shown", "hidden"}, NEW animated \in BOOLEAN
  PROVE  /\ PanelOk(Pan!Moved(s, to, animated)) /\ Pan!Moved(s, to, animated).obj = s.obj
         /\ s.pend = {} /\ (to = "shown" => ~Pan!Open(s)) =>
              /\ Opens(Pan!Moved(s, to, animated)) <=> to = "shown"
              /\ OneCallback(Pan!Moved(s, to, animated))
<1> DEFINE k == [to |-> to, own |-> TRUE]
           cls == IF to = "shown" THEN (s.cls \ {"collapse"}) \cup {"collapsing"}
                                  ELSE (s.cls \ {"collapse", "in"}) \cup {"collapsing"}
           d == Pan!Moved(s, to, animated)
<1>1. s \in Pan!PanelState BY DEF PanelOk
<1>2. k \in Pan!Callback /\ k.to = to /\ k.own BY DEF Pan!Callback
<1>3. cls \subseteq {"collapse", "collapsing", "in"} BY <1>1 DEF Pan!PanelState
<1>4. CASE animated
  <2>1. d = [s EXCEPT !.cls = cls, !.transitioning = TRUE, !.pend = s.pend \cup {k}]
    BY <1>1, <1>4 DEF Pan!Moved, Pan!PanelState
  <2> HIDE DEF cls, k
  <2>2. s.pend \cup {k} \in SUBSET Pan!Callback BY <1>1, <1>2 DEF Pan!PanelState
  <2>3. /\ d \in Pan!PanelState /\ d.pend = s.pend \cup {k} /\ d.cls = cls /\ d.obj = s.obj
    BY <1>1, <1>3, <2>1, <2>2 DEF Pan!PanelState
  <2>4. PanelOk(d) BY <1>2, <2>3 DEF PanelOk
  <2>5. s.pend = {} => Opens(d) <=> to = "shown" BY <1>2, <2>3 DEF Opens
  <2>6. (to = "shown" => ~Pan!Open(s)) => "in" \notin cls BY DEF cls, Pan!Open
  <2>7. s.pend = {} /\ (to = "shown" => ~Pan!Open(s)) => OneCallback(d)
    BY <2>3, <2>6 DEF OneCallback, Pan!Open
  <2> QED BY <2>3, <2>4, <2>5, <2>7 DEF d
<1>5. CASE ~animated
  <2> DEFINE after == (cls \ {"collapsing"}) \cup {IF to = "shown" THEN "in" ELSE "collapse"}
  <2>1. {Pan!ClassOf[x.to] : x \in {k}} = {IF to = "shown" THEN "in" ELSE "collapse"}
    BY <1>2 DEF Pan!ClassOf
  <2>2. d = Pan!Completed([s EXCEPT !.cls = cls, !.transitioning = TRUE], {k})
    BY <1>5 DEF Pan!Moved
  <2> HIDE DEF cls, k
  <2>3. d = [s EXCEPT !.cls = after, !.transitioning = FALSE]
    BY <1>1, <1>2, <2>1, <2>2 DEF Pan!Completed, Pan!PanelState
  <2>4. after \in SUBSET {"collapse", "collapsing", "in"} BY <1>3
  <2>5. "collapsing" \notin after /\ ("in" \in after <=> to = "shown") BY DEF cls
  <2> HIDE DEF after
  <2>6. /\ d \in Pan!PanelState /\ d.cls = after /\ ~d.transitioning /\ d.pend = s.pend
        /\ d.obj = s.obj
    BY <1>1, <2>3, <2>4 DEF Pan!PanelState
  <2>7. PanelOk(d) BY <2>5, <2>6 DEF PanelOk
  <2>8. s.pend = {} => (Opens(d) <=> to = "shown") /\ OneCallback(d)
    BY <2>5, <2>6 DEF Opens, OneCallback, Pan!Open
  <2> QED BY <2>6, <2>7, <2>8 DEF d
<1> QED BY <1>4, <1>5

LEMMA PanelHidden ==
  ASSUME NEW s, PanelOk(s), NEW animated \in BOOLEAN
  PROVE  /\ PanelOk(Pan!Hide(s, animated)) /\ Pan!Hide(s, animated).obj = s.obj
         /\ s.pend = {} => ~Opens(Pan!Hide(s, animated)) /\ OneCallback(Pan!Hide(s, animated))
<1>1. CASE s.transitioning \/ ~Pan!Open(s)
  BY <1>1 DEF Pan!Hide, PanelOk, Opens, OneCallback
<1>2. CASE ~s.transitioning /\ Pan!Open(s)
  BY <1>2, PanelMoved DEF Pan!Hide
<1> QED BY <1>1, <1>2

LEMMA PanelKept ==
  ASSUME NEW s, PanelOk(s), NEW animated \in BOOLEAN
  PROVE  /\ PanelOk(Pan!Keep(s, animated))
         /\ Pan!Keep(s, animated).obj = IF s.obj = "none" THEN "alone" ELSE s.obj
         /\ s.pend = {} => ~Opens(Pan!Keep(s, animated)) /\ OneCallback(Pan!Keep(s, animated))
<1> DEFINE h == Pan!Hide(s, animated)
           d == Pan!Keep(s, animated)
<1>1. PanelOk(h) /\ h.obj = s.obj BY PanelHidden
<1>2. d = [h EXCEPT !.obj = IF @ = "none" THEN "alone" ELSE @] BY DEF Pan!Keep
<1>3. s.pend = {} => ~Opens(h) /\ OneCallback(h) BY PanelHidden
<1> HIDE DEF h, d
<1>4. /\ d \in Pan!PanelState /\ d.cls = h.cls /\ d.pend = h.pend
      /\ d.transitioning = h.transitioning /\ d.obj = IF s.obj = "none" THEN "alone" ELSE s.obj
  BY <1>1, <1>2 DEF PanelOk, Pan!PanelState
<1> QED BY <1>1, <1>3, <1>4 DEF PanelOk, Opens, OneCallback, Pan!Open, d

LEMMA PanelDropped ==
  ASSUME NEW s, PanelOk(s)
  PROVE  /\ PanelOk(Pan!Drop(s)) /\ Pan!Drop(s).obj = "none"
         /\ Opens(s) <=> Opens(Pan!Drop(s))
         /\ OneCallback(s) => OneCallback(Pan!Drop(s))
<1> DEFINE d == Pan!Drop(s)
           ks == {[k EXCEPT !.own = FALSE] : k \in s.pend}
<1>1. s \in Pan!PanelState BY DEF PanelOk
<1>2. \A k \in s.pend : [k EXCEPT !.own = FALSE] \in Pan!Callback /\ [k EXCEPT !.own = FALSE].to = k.to
  BY <1>1 DEF Pan!PanelState, Pan!Callback
<1>3. ks \in SUBSET Pan!Callback /\ (ks = {} <=> s.pend = {}) BY <1>2
<1>4. (\E k \in ks : k.to = "shown") <=> (\E k \in s.pend : k.to = "shown") BY <1>2
<1>5. \A k \in s.pend : s.pend = {k} => ks = {[k EXCEPT !.own = FALSE]} OBVIOUS
<1>6. d = [s EXCEPT !.obj = "none", !.transitioning = FALSE, !.pend = ks]
  BY <1>1 DEF Pan!Drop, Pan!PanelState
<1> HIDE DEF ks
<1>7. /\ d \in Pan!PanelState /\ d.cls = s.cls /\ d.pend = ks /\ ~d.transitioning
      /\ d.obj = "none"
  BY <1>1, <1>3, <1>6 DEF Pan!PanelState
<1> HIDE DEF d
<1>8. PanelOk(d) BY <1>3, <1>7 DEF PanelOk
<1>9. Opens(s) <=> Opens(d) BY <1>3, <1>4, <1>7 DEF Opens, Pan!Open
<1>10. OneCallback(s) => OneCallback(d) BY <1>3, <1>5, <1>7 DEF OneCallback, Pan!Open
<1> QED BY <1>7, <1>8, <1>9, <1>10 DEF d

LEMMA OthersClosed ==
  ASSUME NEW c \in Pan!State, \A q \in Panel : PanelOk(c.panel[q]), NEW p \in Panel
  PROVE  /\ \A q \in Panel : PanelOk(Pan!CloseOthers(c, p)[q])
         /\ \A q \in Panel : ~Pan!Open(c.panel[q]) => Pan!CloseOthers(c, p)[q] = c.panel[q]
         /\ IF c.panel[p].obj # "grouped" THEN Pan!CloseOthers(c, p) = c.panel
            ELSE \A q \in Panel : c.panel[q].pend = {} =>
                   ~Opens(Pan!CloseOthers(c, p)[q]) /\ OneCallback(Pan!CloseOthers(c, p)[q])
         /\ (\A q \in Panel : c.panel[q].obj # "alone") /\
            (\A q, r \in Panel : Pan!Open(c.panel[q]) /\ Pan!Open(c.panel[r]) => q = r) =>
              \A q \in Panel : Pan!CloseOthers(c, p)[q].obj # "alone"
<1> DEFINE e == Pan!CloseOthers(c, p)
           first == CHOOSE q \in Panel : Pan!Open(c.panel[q])
           known == c.panel[first].obj # "none"
           Closed(q) == Pan!Keep(c.panel[q], c.animated)
           Gone(q) == Pan!Drop(Closed(q))
<1>1. c.animated \in BOOLEAN /\ c.panel \in [Panel -> Pan!PanelState] BY DEF Pan!State
<1>2. e = [q \in Panel |-> IF Pan!Open(c.panel[q]) /\ c.panel[p].obj = "grouped"
                           THEN IF known THEN Closed(q) ELSE Gone(q)
                           ELSE c.panel[q]]
  BY DEF Pan!CloseOthers
<1>3. \A q \in Panel : /\ PanelOk(Closed(q)) /\ PanelOk(Gone(q)) /\ Gone(q).obj = "none"
                       /\ Closed(q).obj = IF c.panel[q].obj = "none" THEN "alone" ELSE c.panel[q].obj
  BY <1>1, PanelKept, PanelDropped
<1>4. \A q \in Panel : c.panel[q].pend = {} =>
        ~Opens(Closed(q)) /\ OneCallback(Closed(q)) /\ ~Opens(Gone(q)) /\ OneCallback(Gone(q))
  BY <1>1, <1>3, PanelKept, PanelDropped
<1> HIDE DEF Closed, Gone, known, e
<1>5. \A q \in Panel : PanelOk(e[q]) /\ (~Pan!Open(c.panel[q]) => e[q] = c.panel[q])
  BY <1>2, <1>3
<1>6. CASE c.panel[p].obj # "grouped"
  <2>1. e = c.panel BY <1>1, <1>2, <1>6
  <2> QED BY <1>5, <1>6, <2>1 DEF e
<1>7. CASE c.panel[p].obj = "grouped"
  <2>1. \A q \in Panel : c.panel[q].pend = {} => ~Opens(e[q]) /\ OneCallback(e[q])
    BY <1>2, <1>4, <1>7 DEF Opens, OneCallback
  <2>2. ASSUME \A q \in Panel : c.panel[q].obj # "alone",
               \A q, r \in Panel : Pan!Open(c.panel[q]) /\ Pan!Open(c.panel[r]) => q = r
        PROVE  \A q \in Panel : e[q].obj # "alone"
    <3> SUFFICES ASSUME NEW q \in Panel PROVE e[q].obj # "alone"
      OBVIOUS
    <3>1. CASE Pan!Open(c.panel[q])
      <4>1. first = q BY <2>2, <3>1
      <4>2. known <=> c.panel[q].obj # "none" BY <4>1 DEF known
      <4>3. e[q] = IF known THEN Closed(q) ELSE Gone(q) BY <1>2, <1>7, <3>1
      <4> QED BY <1>3, <2>2, <4>2, <4>3
    <3>2. CASE ~Pan!Open(c.panel[q])
      BY <1>5, <2>2, <3>2
    <3> QED BY <3>1, <3>2
  <2> QED BY <1>5, <1>7, <2>1, <2>2 DEF e
<1> QED BY <1>6, <1>7

LEMMA PanTransitionEnd ==
  ASSUME PanInv, NEW p \in Panel, Pan!TransitionEnd(p)
  PROVE  PanInv'
<1> DEFINE s == widget.panel[p]
           t == [s EXCEPT !.pend = {}]
           d == Pan!Completed(t, s.pend)
           cls == (s.cls \ {"collapsing"}) \cup {Pan!ClassOf[k.to] : k \in s.pend}
<1>0. widget \in Pan!State /\ PanelOk(s) /\ s \in Pan!PanelState /\ s.pend # {}
  BY DEF PanInv, Panels, PanelOk, Pan!TransitionEnd
<1>1. widget' = [widget EXCEPT !.panel[p] = d] BY DEF Pan!TransitionEnd
<1>2. \A k \in s.pend : k.to \in {"shown", "hidden"}
        /\ Pan!ClassOf[k.to] = IF k.to = "shown" THEN "in" ELSE "collapse"
  BY <1>0 DEF Pan!PanelState, Pan!Callback, Pan!ClassOf
<1>3. cls \in SUBSET {"collapse", "collapsing", "in"} /\ "collapsing" \notin cls
  BY <1>0, <1>2 DEF Pan!PanelState
<1>4. ~(s.transitioning /\ \A k \in s.pend : ~k.own) BY <1>0 DEF PanelOk
<1>5. d = [s EXCEPT !.pend = {}, !.cls = cls, !.transitioning = FALSE]
  BY <1>0, <1>4 DEF Pan!Completed, Pan!PanelState
<1>6. d \in Pan!PanelState /\ d.pend = {} /\ d.cls = cls /\ ~d.transitioning /\ d.obj = s.obj
  <2> HIDE DEF cls, s
  <2> QED BY <1>0, <1>3, <1>5 DEF Pan!PanelState
<1>7. PanelOk(d)
  <2> HIDE DEF d, cls
  <2> QED BY <1>3, <1>6 DEF PanelOk
<1>8. OneCallback(s) => /\ OneCallback(d)
                        /\ Opens(s) <=> Opens(d)
  <2> SUFFICES ASSUME OneCallback(s) PROVE Opens(s) <=> Opens(d)
    BY <1>6 DEF OneCallback
  <2>1. PICK k \in s.pend : s.pend = {k} BY <1>0 DEF OneCallback
  <2>2. "in" \notin s.cls BY <1>0 DEF OneCallback, Pan!Open
  <2>3. "in" \in cls <=> k.to = "shown" BY <1>2, <2>1, <2>2
  <2> HIDE DEF d, cls
  <2> QED BY <1>6, <2>1, <2>3 DEF Opens, Pan!Open
<1> HIDE DEF d
<1>9. /\ widget' \in Pan!State /\ widget'.grouped = widget.grouped
      /\ widget'.collapsed = widget.collapsed /\ widget'.calm = widget.calm
      /\ \A q \in Panel : widget'.panel[q] = IF q = p THEN d ELSE widget.panel[q]
  BY <1>0, <1>1, <1>6 DEF Pan!State
<1>10. Panels(widget') BY <1>6, <1>7, <1>9 DEF PanInv, Panels
<1>11. Marks(widget')
  <2> SUFFICES ASSUME widget.calm PROVE Marks(widget')
    BY <1>9 DEF Marks
  <2>1. \A q \in Panel : OneCallback(widget.panel[q]) BY DEF PanInv, Marks
  <2>2. \A q \in Panel : /\ OneCallback(widget'.panel[q])
                         /\ Opens(widget'.panel[q]) <=> Opens(widget.panel[q])
                         /\ widget'.panel[q].obj = widget.panel[q].obj
    BY <1>6, <1>8, <1>9, <2>1
  <2>3. widget'.collapsed = {q \in Panel : ~Opens(widget'.panel[q])}
    BY <1>9, <2>2 DEF PanInv, Marks
  <2> QED BY <1>9, <2>2, <2>3 DEF PanInv, Marks
<1> QED BY <1>10, <1>11 DEF PanInv

\* show of a panel that does not move and is not open, at rest or not.
OnlyShown(c, p, d) ==
  /\ Panels(d) /\ d.grouped = c.grouped /\ d.collapsed = c.collapsed /\ d.calm = c.calm
  /\ (\A q \in Panel : c.panel[q].pend = {}) =>
       /\ \A q \in Panel : OneCallback(d.panel[q])
       /\ Opens(d.panel[p])
       /\ \A q \in Panel \ {p} : Opens(d.panel[q]) <=>
            c.panel[p].obj # "grouped" /\ Opens(c.panel[q])
  /\ (\A q \in Panel : c.panel[q].obj # "alone") /\
     (\A q, r \in Panel : Pan!Open(c.panel[q]) /\ Pan!Open(c.panel[r]) => q = r) =>
       \A q \in Panel : d.panel[q].obj # "alone"

LEMMA PanShow ==
  ASSUME NEW c, Panels(c), NEW p \in Panel, ~Pan!Open(c.panel[p]), ~c.panel[p].transitioning,
         NEW d, d = Pan!Show(c, p, FALSE)
  PROVE  OnlyShown(c, p, d)
<1> DEFINE e == Pan!CloseOthers(c, p)
           m == Pan!Moved(e[p], "shown", c.animated)
<1>0. /\ c \in Pan!State /\ c.animated \in BOOLEAN /\ c.panel \in [Panel -> Pan!PanelState]
      /\ \A q \in Panel : PanelOk(c.panel[q])
  BY DEF Panels, Pan!State
<1>1. d = [c EXCEPT !.panel = [e EXCEPT ![p] = m]] BY DEF Pan!Show
<1>2. /\ \A q \in Panel : PanelOk(e[q])
      /\ e[p] = c.panel[p]
      /\ IF c.panel[p].obj # "grouped" THEN e = c.panel
         ELSE \A q \in Panel : c.panel[q].pend = {} => ~Opens(e[q]) /\ OneCallback(e[q])
      /\ (\A q \in Panel : c.panel[q].obj # "alone") /\
         (\A q, r \in Panel : Pan!Open(c.panel[q]) /\ Pan!Open(c.panel[r]) => q = r) =>
           \A q \in Panel : e[q].obj # "alone"
  BY <1>0, OthersClosed
<1>3. e \in [Panel -> Pan!PanelState]
  <2>1. \A q \in Panel : e[q] \in Pan!PanelState BY <1>2 DEF PanelOk
  <2>2. \E f : e = [q \in Panel |-> f[q]]
    <3>1. e = [q \in Panel |-> e[q]] BY DEF Pan!CloseOthers
    <3> QED BY <3>1
  <2> HIDE DEF e
  <2> QED BY <2>1, <2>2
<1>4. /\ PanelOk(m) /\ m.obj = c.panel[p].obj
      /\ c.panel[p].pend = {} => Opens(m) /\ OneCallback(m)
  <2> HIDE DEF e
  <2> QED BY <1>0, <1>2, PanelMoved
<1> HIDE DEF e, m
<1>5. /\ d \in Pan!State /\ d.grouped = c.grouped /\ d.collapsed = c.collapsed /\ d.calm = c.calm
      /\ \A q \in Panel : d.panel[q] = IF q = p THEN m ELSE e[q]
  <2>1. m \in Pan!PanelState BY <1>4 DEF PanelOk
  <2>2. [e EXCEPT ![p] = m] \in [Panel -> Pan!PanelState] BY <1>3, <2>1
  <2>3. \A q \in Panel : [e EXCEPT ![p] = m][q] = IF q = p THEN m ELSE e[q] BY <1>3
  <2> QED BY <1>0, <1>1, <2>2, <2>3 DEF Pan!State
<1>6. ~c.grouped => \A q \in Panel : e[q].obj # "grouped"
  BY <1>2 DEF Panels
<1>7. Panels(d) BY <1>2, <1>4, <1>5, <1>6 DEF Panels
<1>8. ASSUME \A q \in Panel : c.panel[q].pend = {}
      PROVE  /\ \A q \in Panel : OneCallback(d.panel[q])
             /\ Opens(d.panel[p])
             /\ \A q \in Panel \ {p} : Opens(d.panel[q]) <=>
                  c.panel[p].obj # "grouped" /\ Opens(c.panel[q])
  <2>1. \A q \in Panel : OneCallback(c.panel[q]) BY <1>8 DEF OneCallback
  <2>2. \A q \in Panel : OneCallback(e[q]) BY <1>2, <1>8, <2>1
  <2>3. \A q \in Panel : Opens(e[q]) <=> c.panel[p].obj # "grouped" /\ Opens(c.panel[q])
    <3>1. CASE c.panel[p].obj = "grouped" BY <1>2, <1>8, <3>1
    <3>2. CASE c.panel[p].obj # "grouped" BY <1>2, <3>2
    <3> QED BY <3>1, <3>2
  <2> QED BY <1>4, <1>5, <1>8, <2>2, <2>3
<1> QED BY <1>2, <1>4, <1>5, <1>7, <1>8 DEF OnlyShown

LEMMA PanClick ==
  ASSUME PanInv, NEW p \in Panel, NEW prevented \in BOOLEAN, Pan!Click(p, prevented)
  PROVE  PanInv'
<1> DEFINE s == widget.panel[p]
           c == [widget EXCEPT
                   !.collapsed = Pan!Marked(widget, p),
                   !.calm = @ /\ \A q \in Panel : widget.panel[q].pend = {},
                   !.panel[p].obj = IF @ # "none" THEN @
                                    ELSE IF widget.grouped THEN "grouped" ELSE "alone"]
           obj == IF s.obj # "none" THEN s.obj
                  ELSE IF widget.grouped THEN "grouped" ELSE "alone"
<1>0. /\ widget \in Pan!State /\ PanelOk(s) /\ s \in Pan!PanelState
      /\ widget.panel \in [Panel -> Pan!PanelState] /\ widget.collapsed \subseteq Panel
  BY DEF PanInv, Panels, PanelOk, Pan!State
<1>1. widget' = Pan!Toggle(c, p, prevented) BY DEF Pan!Click
<1>2. obj \in {"none", "alone", "grouped"} BY <1>0 DEF Pan!PanelState
<1>3. /\ [s EXCEPT !.obj = obj] \in Pan!PanelState /\ [s EXCEPT !.obj = obj].cls = s.cls
      /\ [s EXCEPT !.obj = obj].pend = s.pend /\ [s EXCEPT !.obj = obj].obj = obj
      /\ [s EXCEPT !.obj = obj].transitioning = s.transitioning
  <2> HIDE DEF s, obj
  <2> QED BY <1>0, <1>2 DEF Pan!PanelState
<1>4. Pan!Marked(widget, p) \in SUBSET Panel BY <1>0 DEF Pan!Marked
<1>5. c = [widget EXCEPT !.collapsed = Pan!Marked(widget, p),
                         !.calm = @ /\ \A q \in Panel : widget.panel[q].pend = {},
                         !.panel = [widget.panel EXCEPT ![p] = [s EXCEPT !.obj = obj]]]
  BY <1>0 DEF Pan!State, Pan!PanelState
<1> HIDE DEF s, obj
<1>6. /\ c \in Pan!State /\ c.grouped = widget.grouped /\ c.collapsed = Pan!Marked(widget, p)
      /\ c.calm <=> widget.calm /\ \A q \in Panel : widget.panel[q].pend = {}
      /\ \A q \in Panel : c.panel[q] = IF q = p THEN [s EXCEPT !.obj = obj] ELSE widget.panel[q]
      /\ c.animated \in BOOLEAN /\ c.calm \in BOOLEAN
  <2> DEFINE f == [widget.panel EXCEPT ![p] = [s EXCEPT !.obj = obj]]
             calm == widget.calm /\ \A q \in Panel : widget.panel[q].pend = {}
  <2>1. f \in [Panel -> Pan!PanelState] BY <1>0, <1>3
  <2>2. \A q \in Panel : f[q] = IF q = p THEN [s EXCEPT !.obj = obj] ELSE widget.panel[q]
    BY <1>0
  <2>3. calm \in BOOLEAN OBVIOUS
  <2>4. c = [widget EXCEPT !.collapsed = Pan!Marked(widget, p), !.calm = calm, !.panel = f]
    BY <1>0, <1>5 DEF Pan!State
  <2> HIDE DEF f, c
  <2>5. /\ c \in Pan!State /\ c.grouped = widget.grouped /\ c.collapsed = Pan!Marked(widget, p)
        /\ c.calm = calm /\ c.panel = f
    <3> HIDE DEF calm
    <3> QED BY <1>0, <1>4, <2>1, <2>3, <2>4 DEF Pan!State
  <2>6. c.animated \in BOOLEAN /\ c.calm \in BOOLEAN BY <2>5 DEF Pan!State
  <2> QED BY <2>2, <2>5, <2>6
<1> HIDE DEF c
<1>7. \A q \in Panel : /\ c.panel[q].cls = widget.panel[q].cls
                       /\ c.panel[q].pend = widget.panel[q].pend
                       /\ c.panel[q].transitioning = widget.panel[q].transitioning
                       /\ Opens(c.panel[q]) <=> Opens(widget.panel[q])
                       /\ Pan!Open(c.panel[q]) <=> Pan!Open(widget.panel[q])
  BY <1>3, <1>6 DEF s, Opens, Pan!Open
<1>8. Panels(c)
  <2>1. \A q \in Panel : PanelOk(c.panel[q])
    BY <1>0, <1>3, <1>6 DEF PanInv, Panels, PanelOk, s
  <2>2. ~c.grouped => \A q \in Panel : c.panel[q].obj # "grouped"
    <3> SUFFICES ASSUME ~c.grouped PROVE \A q \in Panel : c.panel[q].obj # "grouped"
      OBVIOUS
    <3>1. ~widget.grouped /\ \A q \in Panel : widget.panel[q].obj # "grouped"
      BY <1>6 DEF PanInv, Panels
    <3>2. obj # "grouped" BY <3>1 DEF obj, s
    <3> QED BY <1>3, <1>6, <3>1, <3>2
  <2> QED BY <1>6, <2>1, <2>2 DEF Panels
\* What the togglers say is what the click is about to do.
<1>9. ASSUME c.calm
      PROVE  /\ \A q \in Panel : /\ c.panel[q].pend = {} /\ ~c.panel[q].transitioning
                                 /\ Opens(c.panel[q]) <=> Pan!Open(c.panel[q])
             /\ c.grouped =>
                  /\ c.panel[p].obj = "grouped" /\ \A q \in Panel : c.panel[q].obj # "alone"
                  /\ \A q, r \in Panel : Pan!Open(c.panel[q]) /\ Pan!Open(c.panel[r]) => q = r
             /\ ~c.grouped => c.panel[p].obj # "grouped"
             /\ c.collapsed = {q \in Panel : IF q = p THEN Pan!Open(c.panel[p])
                                             ELSE c.grouped \/ ~Pan!Open(c.panel[q])}
  <2>1. widget.calm /\ \A q \in Panel : widget.panel[q].pend = {} BY <1>6, <1>9
  <2>2. \A q \in Panel : /\ c.panel[q].pend = {} /\ ~c.panel[q].transitioning
                         /\ Opens(c.panel[q]) <=> Pan!Open(c.panel[q])
    BY <1>7, <1>8, <2>1 DEF Panels, PanelOk, Opens
  <2>3. c.grouped =>
          /\ c.panel[p].obj = "grouped" /\ \A q \in Panel : c.panel[q].obj # "alone"
          /\ \A q, r \in Panel : Pan!Open(c.panel[q]) /\ Pan!Open(c.panel[r]) => q = r
    <3> SUFFICES ASSUME c.grouped
                 PROVE  /\ c.panel[p].obj = "grouped" /\ \A q \in Panel : c.panel[q].obj # "alone"
                        /\ \A q, r \in Panel : Pan!Open(c.panel[q]) /\ Pan!Open(c.panel[r]) => q = r
      OBVIOUS
    <3>1. \A q \in Panel : widget.panel[q].obj # "alone" BY <1>6, <2>1 DEF PanInv, Marks
    <3>2. s.obj # "alone" /\ widget.grouped BY <1>6, <3>1 DEF s
    <3>3. obj = "grouped" BY <1>0, <3>2 DEF obj, Pan!PanelState
    <3>4. c.panel[p].obj = "grouped" /\ \A q \in Panel : c.panel[q].obj # "alone"
      BY <1>3, <1>6, <3>1, <3>3
    <3>5. \A q, r \in Panel : Opens(widget.panel[q]) /\ Opens(widget.panel[r]) => q = r
      BY <1>6, <2>1 DEF PanInv, Marks
    <3> QED BY <1>7, <2>2, <3>4, <3>5
  <2>4. ~c.grouped => c.panel[p].obj # "grouped" BY <1>8 DEF Panels
  <2>5. widget.collapsed = {q \in Panel : ~Pan!Open(widget.panel[q])}
    <3>1. widget.collapsed = {q \in Panel : ~Opens(widget.panel[q])}
      BY <2>1 DEF PanInv, Marks
    <3>2. \A q \in Panel : Opens(widget.panel[q]) <=> Pan!Open(widget.panel[q])
      BY <1>7, <2>2
    <3> QED BY <3>1, <3>2
  <2>6. ~widget.panel[p].transitioning BY <1>7, <2>2
  <2>7. c.collapsed = LET others == IF widget.grouped THEN Panel \ {p} ELSE widget.collapsed \ {p}
                      IN IF Pan!Open(widget.panel[p]) THEN others \cup {p} ELSE others
    BY <1>6, <2>6 DEF Pan!Marked
  <2>8. c.collapsed = {q \in Panel : IF q = p THEN Pan!Open(c.panel[p])
                                     ELSE c.grouped \/ ~Pan!Open(c.panel[q])}
    BY <1>6, <1>7, <2>5, <2>7
  <2> QED BY <2>2, <2>3, <2>4, <2>8
<1>10. \A d : Panels(d) /\ ~d.calm => Panels(d) /\ Marks(d) BY DEF Marks
<1>11. [c EXCEPT !.calm = FALSE] \in Pan!State BY <1>6 DEF Pan!State
<1>12. Panels([c EXCEPT !.calm = FALSE]) /\ ~[c EXCEPT !.calm = FALSE].calm
  BY <1>6, <1>8, <1>11 DEF Panels, Pan!State
<1>13. CASE ~Pan!Open(c.panel[p])
  <2>1. widget' = Pan!Show(c, p, prevented) BY <1>1, <1>13 DEF Pan!Toggle
  <2>2. CASE c.panel[p].transitioning
    <3>1. widget' = c BY <2>1, <2>2 DEF Pan!Show
    <3>2. ~c.calm BY <1>9, <2>2
    <3> QED BY <1>8, <1>10, <3>1, <3>2 DEF PanInv
  <2>3. CASE ~c.panel[p].transitioning /\ prevented
    <3>1. widget' = [c EXCEPT !.calm = FALSE] BY <1>13, <2>1, <2>3 DEF Pan!Show
    <3> QED BY <1>10, <1>12, <3>1 DEF PanInv
  <2>4. CASE ~c.panel[p].transitioning /\ ~prevented
    <3>0. widget' = Pan!Show(c, p, FALSE) BY <2>1, <2>4 DEF Pan!Show
    <3>1. OnlyShown(c, p, widget')
      BY <1>8, <1>13, <2>4, <3>0, PanShow
    <3>2. Marks(widget')
      <4> SUFFICES ASSUME c.calm PROVE Marks(widget')
        BY <3>1 DEF Marks, OnlyShown
      <4>1. \A q \in Panel \ {p} : Opens(widget'.panel[q]) <=> ~c.grouped /\ Pan!Open(c.panel[q])
        BY <1>9, <3>1 DEF OnlyShown
      <4>2. \A q \in Panel : OneCallback(widget'.panel[q]) BY <1>9, <3>1 DEF OnlyShown
      <4>3. Opens(widget'.panel[p]) BY <1>9, <3>1 DEF OnlyShown
      <4>4. widget'.collapsed = {q \in Panel : ~Opens(widget'.panel[q])}
        BY <1>9, <1>13, <3>1, <4>1, <4>3 DEF OnlyShown
      <4>5. widget'.grouped =>
              /\ \A q \in Panel : widget'.panel[q].obj # "alone"
              /\ \A q, r \in Panel : Opens(widget'.panel[q]) /\ Opens(widget'.panel[r]) => q = r
        BY <1>9, <3>1, <4>1, <4>3 DEF OnlyShown
      <4> QED BY <4>2, <4>4, <4>5 DEF Marks
    <3> QED BY <3>1, <3>2 DEF PanInv, OnlyShown
  <2> QED BY <2>2, <2>3, <2>4
<1>14. CASE Pan!Open(c.panel[p]) /\ prevented
  <2>1. widget' = [c EXCEPT !.calm = FALSE] BY <1>1, <1>14 DEF Pan!Toggle
  <2> QED BY <1>10, <1>12, <2>1 DEF PanInv
<1>15. CASE Pan!Open(c.panel[p]) /\ ~prevented
  <2> DEFINE h == Pan!Hide(c.panel[p], c.animated)
  <2>1. widget' = [c EXCEPT !.panel[p] = h] BY <1>1, <1>15 DEF Pan!Toggle
  <2>2. /\ PanelOk(h) /\ h.obj = c.panel[p].obj
        /\ c.panel[p].pend = {} => ~Opens(h) /\ OneCallback(h)
    BY <1>6, <1>8, PanelHidden DEF Panels
  <2> HIDE DEF h
  <2>3. h \in Pan!PanelState BY <2>2 DEF PanelOk
  <2>4. /\ widget' \in Pan!State /\ widget'.grouped = c.grouped /\ widget'.calm = c.calm
        /\ widget'.collapsed = c.collapsed
        /\ \A q \in Panel : widget'.panel[q] = IF q = p THEN h ELSE c.panel[q]
    BY <1>6, <2>1, <2>3 DEF Pan!State
  <2>5. Panels(widget') BY <1>8, <2>2, <2>4 DEF Panels
  <2>6. Marks(widget')
    <3> SUFFICES ASSUME c.calm PROVE Marks(widget')
      BY <2>4 DEF Marks
    <3>1. \A q \in Panel : OneCallback(widget'.panel[q]) BY <1>9, <2>2, <2>4 DEF OneCallback
    <3>2. \A q \in Panel : Opens(widget'.panel[q]) <=> q # p /\ Pan!Open(c.panel[q])
      BY <1>9, <2>2, <2>4
    <3>3. c.grouped => \A q \in Panel : ~Opens(widget'.panel[q])
      BY <1>9, <1>15, <3>2
    <3>4. widget'.collapsed = {q \in Panel : ~Opens(widget'.panel[q])}
      BY <1>9, <1>15, <2>4, <3>2, <3>3
    <3>5. widget'.grouped => \A q \in Panel : widget'.panel[q].obj # "alone"
      BY <1>9, <2>2, <2>4
    <3> QED BY <2>4, <3>1, <3>3, <3>4, <3>5 DEF Marks
  <2> QED BY <2>5, <2>6 DEF PanInv
<1> QED BY <1>13, <1>14, <1>15

LEMMA PanInit == Pan!Init => PanInv
<1> SUFFICES ASSUME Pan!Init PROVE PanInv
  OBVIOUS
<1>1. PICK grouped \in BOOLEAN, animated \in BOOLEAN, open \in SUBSET Panel :
        /\ grouped => Cardinality(open) <= 1
        /\ widget = [grouped |-> grouped, animated |-> animated, collapsed |-> Panel \ open,
                     calm |-> TRUE,
                     panel |-> [p \in Panel |->
                       [cls |-> IF p \in open THEN {"collapse", "in"} ELSE {"collapse"},
                        obj |-> "none", transitioning |-> FALSE, pend |-> {}]]]
  BY Counting DEF Pan!Init
<1> DEFINE s(p) == [cls |-> IF p \in open THEN {"collapse", "in"} ELSE {"collapse"},
                    obj |-> "none", transitioning |-> FALSE, pend |-> {}]
<1>2. /\ widget.grouped = grouped /\ widget.collapsed = Panel \ open
      /\ \A p \in Panel : widget.panel[p] = s(p)
  BY <1>1
<1>3. \A p \in Panel : /\ s(p) \in Pan!PanelState /\ s(p).obj = "none" /\ s(p).pend = {}
                       /\ ~s(p).transitioning /\ "collapsing" \notin s(p).cls
                       /\ Pan!Open(s(p)) <=> p \in open
  <2> SUFFICES ASSUME NEW p \in Panel
               PROVE  /\ s(p) \in Pan!PanelState /\ s(p).obj = "none" /\ s(p).pend = {}
                      /\ ~s(p).transitioning /\ "collapsing" \notin s(p).cls
                      /\ Pan!Open(s(p)) <=> p \in open
    OBVIOUS
  <2>1. {} \in SUBSET Pan!Callback OBVIOUS
  <2>2. (IF p \in open THEN {"collapse", "in"} ELSE {"collapse"})
          \in SUBSET {"collapse", "collapsing", "in"}
    OBVIOUS
  <2> QED BY <2>1, <2>2 DEF Pan!PanelState, Pan!Open
<1>4. widget \in Pan!State
  <2>1. [p \in Panel |-> s(p)] \in [Panel -> Pan!PanelState] BY <1>3
  <2>2. Panel \ open \in SUBSET Panel OBVIOUS
  <2> HIDE DEF s
  <2>3. widget = [grouped |-> grouped, animated |-> animated, collapsed |-> Panel \ open,
                  calm |-> TRUE, panel |-> [p \in Panel |-> s(p)]]
    BY <1>1 DEF s
  <2> QED BY <2>1, <2>2, <2>3 DEF Pan!State
<1> HIDE DEF s
<1>5. Panels(widget) BY <1>2, <1>3, <1>4 DEF Panels, PanelOk
<1>6. \A p \in Panel : OneCallback(widget.panel[p]) /\ (Opens(widget.panel[p]) <=> p \in open)
  BY <1>2, <1>3 DEF OneCallback, Opens
<1>7. grouped => \A p, q \in open : p = q
  <2> SUFFICES ASSUME grouped PROVE \A p, q \in open : p = q
    OBVIOUS
  <2>1. IsFiniteSet(open) BY WidgetAssumption, FS_Subset
  <2>2. Cardinality(open) \in Nat /\ Cardinality(open) <= 1 BY <1>1, <2>1, FS_CardinalityType
  <2>3. Cardinality(open) = 0 \/ Cardinality(open) = 1 BY <2>2
  <2> QED BY <2>1, <2>3, FS_EmptySet, FS_Singleton
<1>8. Marks(widget) BY <1>2, <1>3, <1>6, <1>7 DEF Marks
<1> QED BY <1>5, <1>8 DEF PanInv

LEMMA PanNext == PanInv /\ Pan!Next => PanInv'
  BY PanTransitionEnd, PanClick DEF Pan!Next

LEMMA PanAccordion == PanInv => Pan!Accordion
<1> SUFFICES ASSUME PanInv, Pan!AtRest PROVE Pan!Accordion
  BY DEF Pan!Accordion
<1>1. \A p \in Panel : /\ "collapsing" \notin widget.panel[p].cls
                       /\ ~widget.panel[p].transitioning
  BY DEF PanInv, Panels, PanelOk, Pan!AtRest
<1>2. \A p \in Panel : Opens(widget.panel[p]) <=> Pan!Open(widget.panel[p])
  BY DEF Opens, Pan!AtRest
<1> DEFINE open == {p \in Panel : Pan!Open(widget.panel[p])}
<1>3. ASSUME widget.calm
      PROVE  /\ widget.grouped => Cardinality(open) <= 1
             /\ widget.collapsed = Panel \ open
  <2>1. widget.collapsed = Panel \ open BY <1>2, <1>3 DEF PanInv, Marks
  <2>2. ASSUME widget.grouped PROVE Cardinality(open) <= 1
    <3>1. \A p, q \in open : p = q BY <1>2, <1>3, <2>2 DEF PanInv, Marks
    <3>2. open = {} \/ \E p : open = {p} BY <3>1
    <3> HIDE DEF open
    <3>3. Cardinality(open) = 0 \/ Cardinality(open) = 1 BY <3>2, FS_EmptySet, FS_Singleton
    <3> QED BY <3>3
  <2> QED BY <2>1, <2>2
<1> QED BY <1>1, <1>3, Counting DEF Pan!Accordion

-----------------------------------------------------------------------------
(* Tabs.                                                                   *)

\* While nobody clicks as a pane fades, the one that is shown is that of the chosen toggler
\* or is about to be replaced by it.
TabFades(t) ==
  t.calm =>
    \E old, new \in Pane :
      /\ t.li = {new} /\ t.active = {old}
      /\ \/ /\ old = new /\ \A p \in Pane : t.pend[p] = <<>>
            /\ t.animated => t.active \cap t.fade \subseteq t.in
         \/ t.pend = [p \in Pane |-> IF p = old THEN <<[old |-> {old}, new |-> new]>> ELSE <<>>]
TabInv == widget \in Tabs!State /\ TabFades(widget)

LEMMA TabInit == Tabs!Init => TabInv
<1> SUFFICES ASSUME Tabs!Init PROVE TabInv
  OBVIOUS
<1>1. PICK p \in Pane, fade \in SUBSET Pane, animated \in BOOLEAN :
        widget = [animated |-> animated, li |-> {p}, active |-> {p}, fade |-> fade,
                  in |-> {p} \cap fade, pend |-> [q \in Pane |-> <<>>], calm |-> TRUE]
  BY DEF Tabs!Init
<1>2. [q \in Pane |-> <<>>] \in [Pane -> Seq(Tabs!Callback)] OBVIOUS
<1>3. {p} \in SUBSET Pane /\ {p} \cap fade \in SUBSET Pane OBVIOUS
<1>4. widget \in Tabs!State BY <1>1, <1>2, <1>3 DEF Tabs!State
<1>5. /\ widget.li = {p} /\ widget.active = {p} /\ \A q \in Pane : widget.pend[q] = <<>>
      /\ widget.active \cap widget.fade \subseteq widget.in
  BY <1>1
<1> QED BY <1>4, <1>5 DEF TabInv, TabFades

LEMMA TabShow ==
  ASSUME TabInv, NEW new \in Pane, Tabs!Show(new)
  PROVE  TabInv'
<1>1. CASE new \in widget.li
  BY <1>1 DEF Tabs!Show, TabInv
<1>2. CASE new \notin widget.li
  <2> DEFINE k == [old |-> widget.active, new |-> new]
             calm == widget.calm /\ \A p \in Pane : widget.pend[p] = <<>>
             chosen == [widget EXCEPT !.li = {new}, !.calm = calm]
             pend == [p \in Pane |-> IF p \in k.old THEN Append(widget.pend[p], k)
                                                    ELSE widget.pend[p]]
             fading == widget.animated /\ widget.active \cap widget.fade # {}
  <2>0. widget \in Tabs!State /\ widget.pend \in [Pane -> Seq(Tabs!Callback)]
    BY DEF TabInv, Tabs!State
  <2>1. k \in Tabs!Callback /\ k.old = widget.active /\ k.new = new
    BY <2>0 DEF Tabs!State, Tabs!Callback
  <2>2. calm \in BOOLEAN OBVIOUS
  <2>3. pend \in [Pane -> Seq(Tabs!Callback)]
    <3> HIDE DEF k
    <3> QED BY <2>0, <2>1
  <2>4. calm => \E old \in Pane : /\ widget.active = {old}
                                  /\ pend = [p \in Pane |-> IF p = old THEN <<k>> ELSE <<>>]
    <3> SUFFICES ASSUME calm
                 PROVE  \E old \in Pane : /\ widget.active = {old}
                                          /\ pend = [p \in Pane |-> IF p = old THEN <<k>> ELSE <<>>]
      OBVIOUS
    <3>1. PICK old \in Pane : widget.active = {old} BY DEF TabInv, TabFades
    <3>2. \A p \in Pane : pend[p] = IF p = old THEN <<k>> ELSE <<>>
      <4> HIDE DEF k
      <4>1. Append(<<>>, k) = <<k>> OBVIOUS
      <4> QED BY <2>1, <3>1, <4>1
    <3>3. pend = [p \in Pane |-> IF p = old THEN <<k>> ELSE <<>>]
      <4> HIDE DEF k
      <4> QED BY <3>2
    <3> QED BY <3>1, <3>3
  <2>5. CASE fading
    <3>1. widget' = [widget EXCEPT !.li = {new}, !.calm = calm, !.pend = pend,
                                   !.in = @ \ widget.active]
      BY <1>2, <2>0, <2>1, <2>5 DEF Tabs!Show, Tabs!Shown, Tabs!State
    <3> HIDE DEF calm, pend
    <3>2. {new} \in SUBSET Pane /\ widget.in \ widget.active \in SUBSET Pane
      BY <2>0 DEF Tabs!State
    <3>3. /\ widget' \in Tabs!State /\ widget'.li = {new} /\ widget'.calm = calm
          /\ widget'.pend = pend /\ widget'.active = widget.active
      BY <2>0, <2>2, <2>3, <3>1, <3>2 DEF Tabs!State
    <3>4. TabFades(widget') BY <2>4, <3>3 DEF TabFades
    <3> QED BY <3>3, <3>4 DEF TabInv
  <2>6. CASE ~fading
    <3>1. widget' = [widget EXCEPT !.li = {new}, !.calm = calm,
                       !.active = (@ \ widget.active) \cup {new}, !.fade = @ \ {new},
                       !.in = @ \ widget.active]
      BY <1>2, <2>0, <2>1, <2>6 DEF Tabs!Show, Tabs!Shown, Tabs!Replace, Tabs!State
    <3>2. /\ {new} \in SUBSET Pane /\ widget.in \ widget.active \in SUBSET Pane
          /\ widget.fade \ {new} \in SUBSET Pane
          /\ (widget.active \ widget.active) \cup {new} = {new}
      BY <2>0 DEF Tabs!State
    <3> HIDE DEF calm
    <3>3. /\ widget' \in Tabs!State /\ widget'.li = {new} /\ widget'.calm = calm
          /\ widget'.pend = widget.pend /\ widget'.active = {new}
          /\ widget'.fade = widget.fade \ {new}
      BY <2>0, <2>2, <3>1, <3>2 DEF Tabs!State
    <3>4. TabFades(widget') BY <3>3 DEF TabFades, calm
    <3> QED BY <3>3, <3>4 DEF TabInv
  <2> QED BY <2>5, <2>6
<1> QED BY <1>1, <1>2

LEMMA TabTransitionEnd ==
  ASSUME TabInv, NEW p \in Pane, Tabs!TransitionEnd(p)
  PROVE  TabInv'
<1> DEFINE ks == widget.pend[p]
           Stays(q, i) == \A j \in i + 1 .. Len(ks) : q \notin ks[j].old
           last == {i \in 1 .. Len(ks) : Stays(ks[i].new, i)}
           active == {q \in widget.active : Stays(q, 0)} \cup {ks[i].new : i \in last}
           in == widget.in \cup {ks[i].new : i \in 1 .. Len(ks)}
           pend == [widget.pend EXCEPT ![p] = <<>>]
<1>0. /\ widget \in Tabs!State /\ widget.pend \in [Pane -> Seq(Tabs!Callback)]
      /\ widget.active \subseteq Pane /\ widget.in \subseteq Pane
      /\ ks \in Seq(Tabs!Callback) /\ ks # <<>>
  BY DEF TabInv, Tabs!State, Tabs!TransitionEnd
<1>1. widget' = [widget EXCEPT !.pend = pend, !.active = active, !.in = in]
  BY <1>0 DEF Tabs!TransitionEnd, Tabs!FadeIn, Tabs!Activated, Tabs!State
<1>2. \A i \in 1 .. Len(ks) : ks[i].new \in Pane
  <2> HIDE DEF ks
  <2>1. \A i \in 1 .. Len(ks) : ks[i] \in Tabs!Callback BY <1>0, ElementOfSeq
  <2> QED BY <2>1 DEF Tabs!Callback
<1>3. /\ active \in SUBSET Pane /\ in \in SUBSET Pane
      /\ pend \in [Pane -> Seq(Tabs!Callback)]
  BY <1>0, <1>2
<1>4. /\ widget' \in Tabs!State /\ widget'.pend = pend /\ widget'.active = active
      /\ widget'.in = in /\ widget'.li = widget.li /\ widget'.calm = widget.calm
      /\ widget'.fade = widget.fade
  <2> HIDE DEF active, in, pend
  <2> QED BY <1>0, <1>1, <1>3 DEF Tabs!State
<1>5. ASSUME widget.calm PROVE TabFades(widget')
  <2>1. PICK old \in Pane, new \in Pane :
          /\ widget.li = {new} /\ widget.active = {old}
          /\ widget.pend = [q \in Pane |-> IF q = old THEN <<[old |-> {old}, new |-> new]>>
                                                      ELSE <<>>]
    BY <1>0, <1>5 DEF TabInv, TabFades
  <2>2. p = old /\ ks = <<[old |-> {old}, new |-> new]>> BY <1>0, <2>1
  <2>3. Len(ks) = 1 /\ ks[1].old = {old} /\ ks[1].new = new BY <2>2
  <2> HIDE DEF ks
  <2>4. active = {new} /\ new \in in BY <2>1, <2>3
  <2>5. \A q \in Pane : pend[q] = <<>> BY <1>0, <2>1, <2>2
  <2> HIDE DEF active, in, pend
  <2> QED BY <1>4, <2>1, <2>4, <2>5 DEF TabFades
<1> QED BY <1>4, <1>5 DEF TabInv, TabFades

LEMMA TabNext == TabInv /\ Tabs!Next => TabInv'
  BY TabShow, TabTransitionEnd DEF Tabs!Next

LEMMA TabPane == TabInv => Tabs!PaneOfTab
<1> SUFFICES ASSUME TabInv, widget.calm, \A p \in Pane : widget.pend[p] = <<>>
             PROVE  /\ widget.active = widget.li /\ Cardinality(widget.li) = 1
                    /\ widget.animated => widget.active \cap widget.fade \subseteq widget.in
  BY Counting DEF Tabs!PaneOfTab
<1>1. PICK old \in Pane, new \in Pane :
        /\ widget.li = {new} /\ widget.active = {old}
        /\ \/ /\ old = new
              /\ widget.animated => widget.active \cap widget.fade \subseteq widget.in
           \/ widget.pend = [p \in Pane |-> IF p = old THEN <<[old |-> {old}, new |-> new]>>
                                                       ELSE <<>>]
  BY DEF TabInv, TabFades
<1>2. old = new /\ (widget.animated => widget.active \cap widget.fade \subseteq widget.in)
  BY <1>1
<1> QED BY <1>1, <1>2, FS_Singleton

-----------------------------------------------------------------------------
(* The modal dialog.                                                       *)

\* There is a backdrop left for every callback of hide that finds the dialog shown again.
Roomy(m) == m.isShown => Cardinality(m.backs) + m.hiding <= Cardinality(Back)

Backed(m) == IF m.drop # "none" THEN m.back \in Back /\ m.backs = {m.back}
                                ELSE m.backs = {} /\ m.back = NoBack
Handled(m) ==
  IF m.isShown
  THEN /\ m.escapes = IF m.keyboard THEN 1 ELSE 0
       /\ m.dismiss = IF m.drop # "none" THEN 2 ELSE 1
  ELSE m.escapes = 0 /\ m.dismiss = 0 /\ m.guards = 0

\* The stages of a dialog whose calls come one after the other.
Away(m) == /\ ~m.isShown /\ m.hiding = 0 /\ m.waiting = {} /\ ~m.visible /\ ~m.in /\ ~m.open
           /\ m.backs = {} /\ m.back = NoBack
There(m) == /\ m.isShown /\ m.hiding = 0 /\ m.waiting = {} /\ m.visible /\ m.in /\ m.open
            /\ Backed(m) /\ m.guards = 1
Coming(m) == /\ m.isShown /\ m.hiding = 0 /\ m.waiting = {<<m.back, "reveal">>} /\ m.open
             /\ Backed(m) /\ m.drop # "none"
Fading(m) == ~m.isShown /\ m.hiding = 1 /\ m.waiting = {} /\ ~m.in /\ Backed(m)
Clearing(m) == /\ ~m.isShown /\ m.hiding = 0 /\ m.waiting = {<<m.back, "remove">>}
               /\ ~m.visible /\ ~m.in /\ Backed(m) /\ m.drop # "none"
Staged(m) ==
  m.calm => Handled(m) /\ (Away(m) \/ There(m) \/ Coming(m) \/ Fading(m) \/ Clearing(m))

ModalOk(m) == m \in Mod!State /\ Roomy(m) /\ Staged(m)
ModInv == ModalOk(widget)

\* What backdrop and its callbacks never touch.
Held(m, d) == /\ d.fade = m.fade /\ d.keyboard = m.keyboard /\ d.drop = m.drop
              /\ d.isShown = m.isShown /\ d.escapes = m.escapes /\ d.hiding = m.hiding
              /\ d.calm = m.calm

LEMMA BackdropAdded ==
  ASSUME NEW m \in Mod!State, Cardinality(m.backs) < Cardinality(Back),
         NEW d, d = Mod!AddBackdrop(m)
  PROVE  /\ d \in Mod!State /\ Held(m, d) /\ d.back \in Back /\ d.backs = m.backs \cup {d.back}
         /\ Cardinality(d.backs) = Cardinality(m.backs) + 1 /\ d.dismiss = m.dismiss + 1
         /\ d.visible = m.visible /\ d.in = m.in /\ d.open = m.open /\ d.guards = m.guards
         /\ d.waiting = m.waiting
<1> DEFINE b == CHOOSE b \in Back : b \notin m.backs
<1>1. m.backs \in SUBSET Back /\ IsFiniteSet(m.backs)
  BY WidgetAssumption, FS_Subset DEF Mod!State
<1>2. \E x \in Back : x \notin m.backs
  <2>1. m.backs # Back BY WidgetAssumption, FS_CardinalityType
  <2> QED BY <1>1, <2>1
<1>3. b \in Back /\ b \notin m.backs BY <1>2
<1>4. d = [m EXCEPT !.backs = @ \cup {b}, !.back = b, !.dismiss = @ + 1]
  BY DEF Mod!AddBackdrop
<1> HIDE DEF b
<1>5. m.backs \cup {b} \in SUBSET Back /\ Cardinality(m.backs \cup {b}) = Cardinality(m.backs) + 1
  BY <1>1, <1>3, FS_AddElement
<1>6. m.dismiss + 1 \in Nat BY DEF Mod!State
<1>7. /\ d.back = b /\ d.backs = m.backs \cup {b} /\ d.dismiss = m.dismiss + 1 /\ Held(m, d)
      /\ d.visible = m.visible /\ d.in = m.in /\ d.open = m.open /\ d.guards = m.guards
      /\ d.waiting = m.waiting
  BY <1>4 DEF Mod!State, Held
<1>8. d \in Mod!State BY <1>3, <1>4, <1>5, <1>6 DEF Mod!State
<1> QED BY <1>3, <1>5, <1>7, <1>8

LEMMA Revealed ==
  ASSUME NEW m \in Mod!State, NEW d, d = Mod!Reveal(m)
  PROVE  /\ d \in Mod!State /\ Held(m, d) /\ d.backs = m.backs /\ d.back = m.back
         /\ d.dismiss = m.dismiss /\ d.visible /\ d.in /\ d.open = m.open /\ d.guards = 1
         /\ d.waiting = m.waiting
  BY DEF Mod!Reveal, Mod!State, Held

LEMMA BackdropRemoved ==
  ASSUME NEW m \in Mod!State, NEW d, d = Mod!RemoveBackdrop(m)
  PROVE  /\ d \in Mod!State /\ Held(m, d) /\ d.backs = m.backs \ {m.back} /\ d.back = NoBack
         /\ Cardinality(d.backs) <= Cardinality(m.backs)
         /\ d.dismiss = m.dismiss /\ d.visible = m.visible /\ d.in = m.in /\ ~d.open
         /\ d.guards = m.guards /\ d.waiting = {w \in m.waiting : w[1] # m.back}
<1> DEFINE waiting == {w \in m.waiting : w[1] # m.back}
           backs == m.backs \ {m.back}
<1>1. m.backs \in SUBSET Back /\ IsFiniteSet(m.backs)
  BY WidgetAssumption, FS_Subset DEF Mod!State
<1>2. backs \in SUBSET Back /\ Cardinality(backs) <= Cardinality(m.backs)
  BY <1>1, FS_Subset
<1>3. waiting \in SUBSET (Back \X {"reveal", "remove"}) BY DEF Mod!State
<1>4. d = [m EXCEPT !.backs = backs, !.back = NoBack, !.open = FALSE, !.waiting = waiting]
  BY DEF Mod!RemoveBackdrop, Mod!State
<1> HIDE DEF backs, waiting
<1>5. /\ d.backs = backs /\ d.back = NoBack /\ d.dismiss = m.dismiss /\ d.visible = m.visible
      /\ d.in = m.in /\ ~d.open /\ d.guards = m.guards /\ d.waiting = waiting
  BY <1>4 DEF Mod!State
<1>6. Held(m, d) BY <1>4 DEF Mod!State, Held
<1>7. d \in Mod!State BY <1>2, <1>3, <1>4 DEF Mod!State
<1> QED BY <1>2, <1>5, <1>6, <1>7 DEF backs, waiting

LEMMA AfterCalled ==
  ASSUME NEW m \in Mod!State, NEW C, NEW d, d = Mod!Called(m, C)
  PROVE  d \in Mod!State /\ Held(m, d) /\ Cardinality(d.backs) <= Cardinality(m.backs)
<1> DEFINE r == IF "reveal" \in C THEN Mod!Reveal(m) ELSE m
<1>1. r \in Mod!State /\ Held(m, r) /\ r.backs = m.backs BY Revealed DEF Held
<1>2. d = IF "remove" \in C THEN Mod!RemoveBackdrop(r) ELSE r BY DEF Mod!Called
<1>3. Cardinality(m.backs) \in Nat
  BY WidgetAssumption, FS_Subset, FS_CardinalityType DEF Mod!State
<1> HIDE DEF r
<1>4. CASE "remove" \in C
  BY <1>1, <1>2, <1>4, BackdropRemoved DEF Held
<1>5. CASE "remove" \notin C
  BY <1>1, <1>2, <1>3, <1>5
<1> QED BY <1>4, <1>5

LEMMA AfterBackdrop ==
  ASSUME NEW m \in Mod!State, NEW callback \in {"reveal", "remove"},
         NEW d, d = Mod!Backdrop(m, callback),
         m.isShown /\ m.drop # "none" => Cardinality(m.backs) < Cardinality(Back)
  PROVE  /\ d \in Mod!State /\ Held(m, d)
         /\ Cardinality(d.backs) <= Cardinality(m.backs)
                                    + (IF m.isShown /\ m.drop # "none" THEN 1 ELSE 0)
<1> DEFINE adds == m.isShown /\ m.drop # "none"
           added == IF adds THEN Mod!AddBackdrop(m) ELSE m
           animated == m.fade /\ IF m.isShown THEN m.drop # "none" ELSE m.back # NoBack
           waits == [added EXCEPT !.waiting = @ \cup {<<added.back, callback>>}]
<1>0. Cardinality(m.backs) \in Nat
  BY WidgetAssumption, FS_Subset, FS_CardinalityType DEF Mod!State
<1>1. d = IF animated THEN waits ELSE Mod!Called(added, {callback}) BY DEF Mod!Backdrop
<1>2. /\ added \in Mod!State /\ Held(m, added)
      /\ Cardinality(added.backs) = Cardinality(m.backs) + (IF adds THEN 1 ELSE 0)
      /\ adds => added.back \in Back
      /\ ~adds => added.back = m.back
  <2>1. CASE adds BY <2>1, BackdropAdded
  <2>2. CASE ~adds BY <1>0, <2>2 DEF Held
  <2> QED BY <2>1, <2>2
<1>3. CASE animated
  <2>1. m.back \in Back \cup {NoBack} BY DEF Mod!State
  <2>2. added.back \in Back BY <1>2, <1>3, <2>1
  <2> HIDE DEF added
  <2>3. added.waiting \cup {<<added.back, callback>>} \in SUBSET (Back \X {"reveal", "remove"})
    BY <1>2, <2>2 DEF Mod!State
  <2>4. waits \in Mod!State /\ Held(added, waits) /\ waits.backs = added.backs
    BY <1>2, <2>3 DEF Mod!State, Held
  <2> HIDE DEF waits
  <2>5. d = waits BY <1>1, <1>3
  <2> QED BY <1>0, <1>2, <2>4, <2>5 DEF Held
<1>4. CASE ~animated
  <2> HIDE DEF added
  <2>1. d = Mod!Called(added, {callback}) BY <1>1, <1>4
  <2>2. d \in Mod!State /\ Held(added, d) /\ Cardinality(d.backs) <= Cardinality(added.backs)
    BY <1>2, <2>1, AfterCalled
  <2>3. Cardinality(d.backs) \in Nat
    BY <2>2, WidgetAssumption, FS_Subset, FS_CardinalityType DEF Mod!State
  <2> QED BY <1>0, <1>2, <2>2, <2>3 DEF Held
<1> QED BY <1>3, <1>4

LEMMA ModalShow ==
  ASSUME NEW m, ModalOk(m), NEW prevented \in BOOLEAN,
         m.isShown \/ Cardinality(m.backs) + m.hiding < Cardinality(Back)
  PROVE  ModalOk(Mod!Show(m, prevented))
<1> DEFINE marked == [m EXCEPT !.open = TRUE]
           d == Mod!Show(m, prevented)
<1>0. /\ m \in Mod!State /\ m.hiding \in Nat /\ Cardinality(m.backs) \in Nat
      /\ Cardinality(Back) \in Nat
  BY WidgetAssumption, FS_Subset, FS_CardinalityType DEF ModalOk, Mod!State
<1>1. /\ marked \in Mod!State /\ Held(m, marked) /\ marked.backs = m.backs /\ marked.open
      /\ marked.back = m.back /\ marked.dismiss = m.dismiss /\ marked.visible = m.visible
      /\ marked.in = m.in /\ marked.guards = m.guards /\ marked.waiting = m.waiting
  BY <1>0 DEF Mod!State, Held
<1>2. CASE m.isShown
  <2>1. d = marked BY <1>2 DEF Mod!Show
  <2>2. Roomy(marked) BY <1>1 DEF ModalOk, Roomy, Held
  <2>3. Staged(marked)
    <3> HIDE DEF marked
    <3>1. m.calm => Handled(marked) BY <1>1 DEF ModalOk, Staged, Handled, Held
    <3>2. There(m) => There(marked) BY <1>1 DEF There, Backed, Held
    <3>3. Coming(m) => Coming(marked) BY <1>1 DEF Coming, Backed, Held
    <3>4. ~Away(m) /\ ~Fading(m) /\ ~Clearing(m) BY <1>2 DEF Away, Fading, Clearing
    <3> QED BY <1>1, <3>1, <3>2, <3>3, <3>4 DEF ModalOk, Staged, Held
  <2> QED BY <1>1, <2>1, <2>2, <2>3 DEF ModalOk
<1>3. CASE ~m.isShown /\ prevented
  <2> DEFINE n == [marked EXCEPT !.calm = FALSE]
  <2>1. d = n BY <1>3 DEF Mod!Show
  <2>2. n \in Mod!State /\ ~n.isShown /\ ~n.calm
    BY <1>0, <1>3 DEF Mod!State
  <2> HIDE DEF n
  <2> QED BY <2>1, <2>2 DEF ModalOk, Roomy, Staged
<1>4. CASE ~m.isShown /\ ~prevented
  <2> DEFINE calm == m.calm /\ m.hiding = 0 /\ m.waiting = {}
             n == [marked EXCEPT
                     !.isShown = TRUE, !.escapes = m.escapes + (IF m.keyboard THEN 1 ELSE 0),
                     !.dismiss = m.dismiss + 1, !.calm = calm]
  <2>1. d = Mod!Backdrop(n, "reveal") BY <1>0, <1>4 DEF Mod!Show, Mod!State
  <2>2. /\ m.escapes + (IF m.keyboard THEN 1 ELSE 0) \in Nat /\ m.dismiss + 1 \in Nat
        /\ m.dismiss \in Nat /\ m.escapes \in Nat
    BY <1>0 DEF Mod!State
  <2>3. calm \in BOOLEAN OBVIOUS
  <2>4. /\ n \in Mod!State /\ n.isShown /\ n.escapes = m.escapes + (IF m.keyboard THEN 1 ELSE 0)
        /\ n.dismiss = m.dismiss + 1 /\ n.calm = calm /\ n.backs = m.backs /\ n.open
        /\ n.back = m.back /\ n.drop = m.drop /\ n.keyboard = m.keyboard /\ n.fade = m.fade
        /\ n.hiding = m.hiding /\ n.waiting = m.waiting
    <3> HIDE DEF calm
    <3> QED BY <1>0, <2>2, <2>3 DEF Mod!State
  <2> HIDE DEF n
  <2>5. Cardinality(n.backs) < Cardinality(Back) BY <1>0, <1>4, <2>4
  <2>6. /\ d \in Mod!State /\ Held(n, d)
        /\ Cardinality(d.backs) <= Cardinality(n.backs) + 1
    <3>1. /\ d \in Mod!State /\ Held(n, d)
          /\ Cardinality(d.backs) <= Cardinality(n.backs)
                                     + (IF n.isShown /\ n.drop # "none" THEN 1 ELSE 0)
      BY <2>1, <2>4, <2>5, AfterBackdrop
    <3>2. Cardinality(d.backs) \in Nat
      BY <3>1, WidgetAssumption, FS_Subset, FS_CardinalityType DEF Mod!State
    <3> QED BY <1>0, <2>4, <3>1, <3>2
  <2>7. Roomy(d)
    <3>1. Cardinality(d.backs) \in Nat
      BY <2>6, WidgetAssumption, FS_Subset, FS_CardinalityType DEF Mod!State
    <3> HIDE DEF d
    <3> QED BY <1>0, <1>4, <2>4, <2>6, <3>1 DEF Roomy, Held
  <2>8. Staged(d)
    <3> SUFFICES ASSUME calm PROVE Handled(d) /\ (There(d) \/ Coming(d))
      BY <2>4, <2>6 DEF Staged, Held
    <3>1. Away(m) /\ m.escapes = 0 /\ m.dismiss = 0
      <4>1. m.calm /\ m.hiding = 0 /\ m.waiting = {} BY DEF calm
      <4>2. Handled(m) /\ (Away(m) \/ There(m) \/ Coming(m) \/ Fading(m) \/ Clearing(m))
        BY <4>1 DEF ModalOk, Staged
      <4>3. ~There(m) /\ ~Coming(m) BY <1>4 DEF There, Coming
      <4>4. ~Fading(m) BY <4>1 DEF Fading
      <4>5. ~Clearing(m)
        <5>1. <<m.back, "remove">> \notin m.waiting BY <4>1
        <5> QED BY <5>1 DEF Clearing
      <4> QED BY <1>4, <4>2, <4>3, <4>4, <4>5 DEF Handled
    <3> DEFINE added == IF n.drop # "none" THEN Mod!AddBackdrop(n) ELSE n
    <3>2. /\ added \in Mod!State /\ Held(n, added) /\ Backed(added) /\ added.open
          /\ added.dismiss = (IF m.drop # "none" THEN 2 ELSE 1) /\ added.waiting = {}
      <4>1. /\ n.backs = {} /\ n.back = NoBack /\ n.waiting = {} /\ n.dismiss = 1
            /\ n \in Mod!State /\ n.open
        BY <2>4, <3>1 DEF Away
      <4>2. CASE n.drop # "none"
        <5>1. added = Mod!AddBackdrop(n) BY <4>2
        <5> HIDE DEF added
        <5>2. /\ added \in Mod!State /\ Held(n, added) /\ added.back \in Back
              /\ added.backs = {} \cup {added.back} /\ added.dismiss = 1 + 1 /\ added.open
              /\ added.waiting = {}
          BY <2>5, <4>1, <5>1, BackdropAdded
        <5>3. added.drop = n.drop /\ added.backs = {added.back} BY <5>2 DEF Held
        <5> QED BY <2>4, <4>2, <5>2, <5>3 DEF Backed
      <4>3. CASE n.drop = "none"
        <5>1. added = n BY <4>3
        <5> HIDE DEF added
        <5> QED BY <2>4, <4>1, <4>3, <5>1 DEF Backed, Held
      <4> QED BY <4>2, <4>3
    <3>3. Handled(added)
      <4>1. n.escapes = IF m.keyboard THEN 1 ELSE 0 BY <2>4, <3>1
      <4> HIDE DEF added
      <4>2. /\ added.isShown /\ added.escapes = (IF added.keyboard THEN 1 ELSE 0)
            /\ added.drop = m.drop
        BY <2>4, <3>2, <4>1 DEF Held
      <4> QED BY <3>2, <4>2 DEF Handled
    <3>4. d = IF n.fade /\ n.drop # "none"
              THEN [added EXCEPT !.waiting = @ \cup {<<added.back, "reveal">>}]
              ELSE Mod!Reveal(added)
      BY <2>1, <2>4 DEF Mod!Backdrop, Mod!Called
    <3> HIDE DEF added, d
    <3>5. CASE n.fade /\ n.drop # "none"
      <4>1. /\ Held(added, d) /\ d.waiting = {<<d.back, "reveal">>} /\ d.back = added.back
            /\ d.backs = added.backs /\ d.open /\ d.dismiss = added.dismiss
        BY <3>2, <3>4, <3>5 DEF Mod!State, Held
      <4>2. d.isShown /\ d.hiding = 0 /\ d.drop # "none"
        BY <2>4, <3>1, <3>2, <3>5, <4>1 DEF Held, Away
      <4>3. Backed(d) /\ Handled(d) BY <3>2, <3>3, <4>1, <4>2 DEF Backed, Handled, Held
      <4> QED BY <4>1, <4>2, <4>3 DEF Coming
    <3>6. CASE ~(n.fade /\ n.drop # "none")
      <4>1. /\ Held(added, d) /\ d.waiting = {} /\ d.back = added.back /\ d.backs = added.backs
            /\ d.open /\ d.dismiss = added.dismiss /\ d.visible /\ d.in /\ d.guards = 1
        BY <3>2, <3>4, <3>6, Revealed
      <4>2. d.isShown /\ d.hiding = 0
        BY <2>4, <3>1, <3>2, <4>1 DEF Held, Away
      <4>3. Backed(d) /\ Handled(d) BY <3>2, <3>3, <4>1, <4>2 DEF Backed, Handled, Held
      <4> QED BY <4>1, <4>2, <4>3 DEF There
    <3> QED BY <3>5, <3>6
  <2> QED BY <2>6, <2>7, <2>8 DEF ModalOk
<1> QED BY <1>2, <1>3, <1>4

\* The backdrop goes, at once or when it has faded; what is hidden goes to rest by it.
LEMMA ModalGone ==
  ASSUME NEW m \in Mod!State, ~m.isShown,
         m.calm => Handled(m) /\ m.waiting = {} /\ m.hiding = 0 /\ ~m.in /\ Backed(m),
         NEW d, d = Mod!HideModal(m)
  PROVE  ModalOk(d)
<1> DEFINE n == [m EXCEPT !.visible = FALSE]
<1>1. /\ n \in Mod!State /\ Held(m, n) /\ ~n.visible /\ n.backs = m.backs /\ n.back = m.back
      /\ n.dismiss = m.dismiss /\ n.in = m.in /\ n.guards = m.guards /\ n.waiting = m.waiting
  BY DEF Mod!State, Held
<1>2. d = Mod!Backdrop(n, "remove") BY DEF Mod!HideModal
<1> HIDE DEF n
<1>3. ~n.isShown /\ n.fade = m.fade /\ n.drop = m.drop /\ n.hiding = m.hiding /\ n.calm = m.calm
  BY <1>1 DEF Held
<1>4. d \in Mod!State /\ Held(n, d) BY <1>1, <1>2, <1>3, AfterBackdrop
<1>5. Roomy(d) BY <1>3, <1>4 DEF Roomy, Held
<1>6. ASSUME m.calm PROVE Handled(d) /\ (Away(d) \/ Clearing(d))
  <2>1. /\ n.dismiss = 0 /\ n.escapes = 0 /\ n.guards = 0 /\ ~n.in /\ n.waiting = {}
        /\ n.hiding = 0
    BY <1>1, <1>3, <1>6 DEF Handled, Held
  <2>2. Backed(n) BY <1>1, <1>6 DEF Backed, Held
  <2>3. d = IF n.fade /\ n.back # NoBack
            THEN [n EXCEPT !.waiting = @ \cup {<<n.back, "remove">>}]
            ELSE Mod!RemoveBackdrop(n)
    BY <1>2, <1>3 DEF Mod!Backdrop, Mod!Called
  <2>4. CASE n.fade /\ n.back # NoBack
    <3>1. d = [n EXCEPT !.waiting = @ \cup {<<n.back, "remove">>}] BY <2>3, <2>4
    <3>2. /\ d.waiting = n.waiting \cup {<<n.back, "remove">>} /\ d.back = n.back
          /\ d.backs = n.backs /\ d.dismiss = n.dismiss /\ d.guards = n.guards /\ ~d.visible
          /\ ~d.in
      BY <1>1, <2>1, <3>1 DEF Mod!State
    <3>3. d.waiting = {<<d.back, "remove">>} BY <2>1, <3>2
    <3>4. d.drop # "none" BY <1>4, <2>2, <2>4 DEF Backed, Held
    <3>5. Backed(d) /\ Handled(d) /\ ~d.isShown /\ d.hiding = 0
      BY <1>3, <1>4, <2>1, <2>2, <3>2 DEF Backed, Handled, Held
    <3> QED BY <3>2, <3>3, <3>4, <3>5 DEF Clearing
  <2>5. CASE ~(n.fade /\ n.back # NoBack)
    <3>1. d = Mod!RemoveBackdrop(n) BY <2>3, <2>5
    <3>2. /\ d.backs = n.backs \ {n.back} /\ d.back = NoBack /\ d.dismiss = n.dismiss
          /\ ~d.visible /\ ~d.in /\ ~d.open /\ d.guards = n.guards
          /\ d.waiting = {w \in n.waiting : w[1] # n.back}
      BY <1>1, <2>1, <3>1, BackdropRemoved
    <3>3. d.waiting = {} BY <2>1, <3>2
    <3>4. d.backs = {} BY <2>2, <3>2 DEF Backed
    <3>5. Handled(d) /\ ~d.isShown /\ d.hiding = 0
      BY <1>3, <1>4, <2>1, <3>2 DEF Handled, Held
    <3> QED BY <3>2, <3>3, <3>4, <3>5 DEF Away
  <2> QED BY <2>4, <2>5
<1>7. Staged(d) BY <1>3, <1>4, <1>6 DEF Staged, Held
<1> QED BY <1>4, <1>5, <1>7 DEF ModalOk

LEMMA ModalHide ==
  ASSUME NEW m, ModalOk(m), NEW prevented \in BOOLEAN, m.hiding < MaxHides
  PROVE  ModalOk(Mod!Hide(m, prevented))
<1> DEFINE calm == m.calm /\ m.waiting = {}
           h == [m EXCEPT !.escapes = 0, !.dismiss = 0, !.guards = 0, !.isShown = FALSE,
                          !.in = FALSE, !.calm = calm]
           d == Mod!Hide(m, prevented)
<1>1. m \in Mod!State /\ m.hiding \in Nat BY DEF ModalOk, Mod!State
<1>2. CASE ~m.isShown \/ prevented
  BY <1>2 DEF Mod!Hide
<1>3. CASE m.isShown /\ ~prevented
  <2>1. d = IF m.fade THEN [h EXCEPT !.hiding = @ + 1] ELSE Mod!HideModal(h)
    BY <1>1, <1>3 DEF Mod!Hide, Mod!NoHandlers, Mod!State
  <2>2. calm \in BOOLEAN OBVIOUS
  <2>3. /\ h \in Mod!State /\ ~h.isShown /\ ~h.in /\ h.escapes = 0 /\ h.dismiss = 0
        /\ h.guards = 0 /\ h.calm = calm /\ h.backs = m.backs /\ h.back = m.back
        /\ h.drop = m.drop /\ h.hiding = m.hiding /\ h.waiting = m.waiting /\ h.fade = m.fade
    <3> HIDE DEF calm
    <3> QED BY <1>1, <2>2 DEF Mod!State
  <2> HIDE DEF h
  <2>4. calm => Backed(h) /\ Handled(h) /\ h.waiting = {} /\ h.hiding = 0
    <3> SUFFICES ASSUME calm PROVE Backed(h) /\ Handled(h) /\ h.waiting = {} /\ h.hiding = 0
      OBVIOUS
    <3>1. m.waiting = {} /\ (Away(m) \/ There(m) \/ Coming(m) \/ Fading(m) \/ Clearing(m))
      BY DEF ModalOk, Staged
    <3>2. ~Away(m) /\ ~Fading(m) /\ ~Clearing(m) BY <1>3 DEF Away, Fading, Clearing
    <3>3. ~Coming(m)
      <4>1. <<m.back, "reveal">> \notin m.waiting BY <3>1
      <4> QED BY <4>1 DEF Coming
    <3>4. There(m) BY <3>1, <3>2, <3>3
    <3> QED BY <2>3, <3>1, <3>4 DEF There, Backed, Handled
  <2>5. CASE m.fade
    <3>1. d = [h EXCEPT !.hiding = @ + 1] BY <2>1, <2>5
    <3>2. h.hiding + 1 \in 0 .. MaxHides
      BY <1>1, <2>3, WidgetAssumption
    <3> HIDE DEF d
    <3>3. /\ d \in Mod!State /\ ~d.isShown /\ ~d.in /\ d.escapes = 0 /\ d.dismiss = 0
          /\ d.guards = 0 /\ d.calm = calm /\ d.backs = h.backs /\ d.back = h.back
          /\ d.drop = h.drop /\ d.hiding = h.hiding + 1 /\ d.waiting = h.waiting
      BY <2>3, <3>1, <3>2 DEF Mod!State
    <3>4. Roomy(d) BY <3>3 DEF Roomy
    <3>5. calm => Fading(d) /\ Handled(d)
      BY <2>4, <3>3 DEF Fading, Handled, Backed
    <3>6. Staged(d) BY <3>3, <3>5 DEF Staged
    <3> QED BY <3>3, <3>4, <3>6 DEF ModalOk, d
  <2>6. CASE ~m.fade
    <3>1. d = Mod!HideModal(h) BY <2>1, <2>6
    <3> QED BY <2>3, <2>4, <3>1, ModalGone
  <2> QED BY <2>5, <2>6
<1> QED BY <1>2, <1>3

\* A callback of hide that finds the dialog shown again adds a backdrop.
LEMMA ModalAgain ==
  ASSUME NEW m \in Mod!State, Cardinality(m.backs) < Cardinality(Back),
         NEW d, d = Mod!HideModal(m)
  PROVE  /\ d \in Mod!State /\ Held(m, d) /\ Cardinality(d.backs) \in Nat
         /\ Cardinality(d.backs) <= Cardinality(m.backs) + 1
<1> DEFINE n == [m EXCEPT !.visible = FALSE]
<1>1. n \in Mod!State /\ Held(m, n) /\ n.backs = m.backs BY DEF Mod!State, Held
<1>2. d = Mod!Backdrop(n, "remove") BY DEF Mod!HideModal
<1> HIDE DEF n
<1>3. /\ d \in Mod!State /\ Held(n, d)
      /\ Cardinality(d.backs) <= Cardinality(n.backs)
                                 + (IF n.isShown /\ n.drop # "none" THEN 1 ELSE 0)
  BY <1>1, <1>2, AfterBackdrop
<1>4. Cardinality(d.backs) \in Nat /\ Cardinality(m.backs) \in Nat
  BY <1>3, WidgetAssumption, FS_Subset, FS_CardinalityType DEF Mod!State
<1>5. Held(m, d) BY <1>1, <1>3 DEF Held
<1> QED BY <1>1, <1>3, <1>4, <1>5

LEMMA ModalDialogEnd == ModInv /\ Mod!DialogEnd => ModInv'
<1> SUFFICES ASSUME ModInv, Mod!DialogEnd PROVE ModInv'
  OBVIOUS
<1> DEFINE n == [widget EXCEPT !.hiding = 0]
           once == Mod!HideModal(n)
           twice == Mod!HideModal(once)
<1>1. /\ widget \in Mod!State /\ widget.hiding \in {1, 2} /\ Cardinality(widget.backs) \in Nat
      /\ Cardinality(Back) \in Nat
  BY WidgetAssumption, FS_Subset, FS_CardinalityType
     DEF ModInv, ModalOk, Mod!State, Mod!DialogEnd
<1>2. widget' = IF widget.hiding = 1 THEN once ELSE twice BY DEF Mod!DialogEnd
<1>3. 0 \in 0 .. MaxHides BY WidgetAssumption
<1>4. /\ n \in Mod!State /\ n.hiding = 0 /\ n.isShown = widget.isShown /\ n.calm = widget.calm
      /\ n.backs = widget.backs /\ n.back = widget.back /\ n.drop = widget.drop
      /\ n.in = widget.in /\ n.waiting = widget.waiting /\ n.escapes = widget.escapes
      /\ n.dismiss = widget.dismiss /\ n.guards = widget.guards /\ n.keyboard = widget.keyboard
  BY <1>1, <1>3 DEF Mod!State
<1>5. widget.calm => Handled(widget) /\ Fading(widget)
  BY <1>1 DEF ModInv, ModalOk, Staged, Away, There, Coming, Clearing
<1> HIDE DEF n, once, twice
<1>6. CASE ~widget.isShown
  <2>1. n.calm => Handled(n) /\ n.waiting = {} /\ n.hiding = 0 /\ ~n.in /\ Backed(n)
    BY <1>4, <1>5, <1>6 DEF Handled, Backed, Fading
  <2>2. ModalOk(once) BY <1>4, <1>6, <2>1, ModalGone DEF once
  <2>3. CASE widget.hiding = 1 BY <1>2, <2>2, <2>3 DEF ModInv
  <2>4. CASE widget.hiding = 2
    <3>1. ~n.calm BY <1>4, <1>5, <2>4 DEF Fading
    <3>2. once \in Mod!State /\ once.isShown = n.isShown /\ once.calm = n.calm
      <4>1. n.isShown = FALSE BY <1>4, <1>6
      <4> DEFINE v == [n EXCEPT !.visible = FALSE]
      <4>2. v \in Mod!State /\ Held(n, v) /\ ~v.isShown BY <1>4, <1>6 DEF Mod!State, Held
      <4>3. once = Mod!Backdrop(v, "remove") BY DEF once, Mod!HideModal
      <4> HIDE DEF v
      <4>4. once \in Mod!State /\ Held(v, once) BY <4>2, <4>3, AfterBackdrop
      <4> QED BY <4>2, <4>4 DEF Held
    <3>3. ~once.isShown /\ ~once.calm BY <1>4, <1>6, <3>1, <3>2
    <3>4. ModalOk(twice) BY <3>2, <3>3, ModalGone DEF twice
    <3> QED BY <1>2, <2>4, <3>4 DEF ModInv
  <2> QED BY <1>1, <2>3, <2>4
<1>7. CASE widget.isShown
  <2>1. Cardinality(n.backs) + widget.hiding <= Cardinality(Back)
    BY <1>4, <1>7 DEF ModInv, ModalOk, Roomy
  <2>2. ~n.calm BY <1>4, <1>5, <1>7 DEF Fading
  <2>3. /\ once \in Mod!State /\ Held(n, once) /\ Cardinality(once.backs) \in Nat
        /\ Cardinality(once.backs) <= Cardinality(n.backs) + 1
    <3>1. Cardinality(n.backs) < Cardinality(Back) BY <1>1, <1>4, <2>1
    <3> QED BY <1>4, <3>1, ModalAgain DEF once
  <2>4. once.hiding = 0 /\ ~once.calm BY <1>4, <2>2, <2>3 DEF Held
  <2>5. CASE widget.hiding = 1
    <3>1. widget' = once BY <1>2, <2>5
    <3>2. Cardinality(once.backs) <= Cardinality(Back) BY <1>1, <1>4, <2>1, <2>3, <2>5
    <3> QED BY <1>1, <2>3, <2>4, <3>1, <3>2 DEF ModInv, ModalOk, Roomy, Staged
  <2>6. CASE widget.hiding = 2
    <3>1. widget' = twice BY <1>2, <2>6
    <3>2. Cardinality(once.backs) < Cardinality(Back) BY <1>1, <1>4, <2>1, <2>3, <2>6
    <3>3. /\ twice \in Mod!State /\ Held(once, twice) /\ Cardinality(twice.backs) \in Nat
          /\ Cardinality(twice.backs) <= Cardinality(once.backs) + 1
      BY <2>3, <3>2, ModalAgain DEF twice
    <3>4. twice.hiding = 0 /\ ~twice.calm BY <2>4, <3>3 DEF Held
    <3>5. Cardinality(twice.backs) <= Cardinality(Back) BY <1>1, <2>3, <3>2, <3>3
    <3> QED BY <3>1, <3>3, <3>4, <3>5 DEF ModInv, ModalOk, Roomy, Staged
  <2> QED BY <1>1, <2>5, <2>6
<1> QED BY <1>6, <1>7

LEMMA ModalBackdropEnd ==
  ASSUME NEW b \in Back, ModInv, Mod!BackdropEnd(b)
  PROVE  ModInv'
<1> DEFINE mine == {w \in widget.waiting : w[1] = b}
           n == [widget EXCEPT !.waiting = @ \ mine]
           C == {w[2] : w \in mine}
<1>1. /\ widget \in Mod!State /\ widget.hiding \in Nat /\ Cardinality(widget.backs) \in Nat
      /\ Cardinality(Back) \in Nat
  BY WidgetAssumption, FS_Subset, FS_CardinalityType DEF ModInv, ModalOk, Mod!State
<1>2. mine # {} /\ widget' = Mod!Called(n, C) BY DEF Mod!BackdropEnd
<1>3. widget.waiting \ mine \in SUBSET (Back \X {"reveal", "remove"}) BY <1>1 DEF Mod!State
<1>4. /\ n \in Mod!State /\ Held(widget, n) /\ n.backs = widget.backs /\ n.back = widget.back
      /\ n.visible = widget.visible /\ n.in = widget.in /\ n.open = widget.open
      /\ n.dismiss = widget.dismiss /\ n.guards = widget.guards
      /\ n.waiting = widget.waiting \ mine
  <2> HIDE DEF mine
  <2> QED BY <1>1, <1>3 DEF Mod!State, Held
<1> HIDE DEF n
<1>5. /\ widget' \in Mod!State /\ Held(n, widget')
      /\ Cardinality(widget'.backs) <= Cardinality(n.backs)
  BY <1>2, <1>4, AfterCalled
<1>6. Cardinality(widget'.backs) \in Nat
  BY <1>5, WidgetAssumption, FS_Subset, FS_CardinalityType DEF Mod!State
<1>7. Roomy(widget')
  BY <1>1, <1>4, <1>5, <1>6 DEF ModInv, ModalOk, Roomy, Held
<1>8. ASSUME widget.calm
      PROVE  Handled(widget') /\ (There(widget') \/ Away(widget'))
  <2>1. Handled(widget) /\ (Coming(widget) \/ Clearing(widget))
    <3>1. widget.waiting # {} BY <1>2
    <3> QED BY <1>8, <3>1 DEF ModInv, ModalOk, Staged, Away, There, Fading
  <2>2. CASE Coming(widget)
    <3>1. widget.waiting = {<<widget.back, "reveal">>} BY <2>2 DEF Coming
    <3>2. mine = {<<widget.back, "reveal">>} BY <1>2, <3>1
    <3>3. C = {"reveal"}
      <4>1. \A w \in mine : w[2] = "reveal" BY <3>2
      <4>2. \E w \in mine : w[2] = "reveal" BY <3>2, <4>1
      <4> HIDE DEF mine
      <4> QED BY <4>1, <4>2
    <3>4. n.waiting = {} BY <1>4, <3>1, <3>2
    <3> HIDE DEF C, mine
    <3>5. widget' = Mod!Reveal(n) BY <1>2, <3>3 DEF Mod!Called
    <3>6. /\ widget'.backs = n.backs /\ widget'.back = n.back /\ widget'.dismiss = n.dismiss
          /\ widget'.visible /\ widget'.in /\ widget'.open = n.open /\ widget'.guards = 1
          /\ widget'.waiting = {}
      BY <1>4, <3>4, <3>5, Revealed
    <3>7. widget'.isShown /\ widget'.hiding = 0 /\ widget'.open /\ Backed(widget')
      BY <1>4, <1>5, <2>2, <3>6 DEF Coming, Held, Backed
    <3>8. Handled(widget')
      BY <1>4, <1>5, <2>1, <3>6, <3>7 DEF Handled, Held
    <3> QED BY <3>6, <3>7, <3>8 DEF There
  <2>3. CASE Clearing(widget)
    <3>1. widget.waiting = {<<widget.back, "remove">>} BY <2>3 DEF Clearing
    <3>2. mine = {<<widget.back, "remove">>} BY <1>2, <3>1
    <3>3. C = {"remove"}
      <4>1. \A w \in mine : w[2] = "remove" BY <3>2
      <4>2. \E w \in mine : w[2] = "remove" BY <3>2, <4>1
      <4> HIDE DEF mine
      <4> QED BY <4>1, <4>2
    <3>4. n.waiting = {} BY <1>4, <3>1, <3>2
    <3> HIDE DEF C, mine
    <3>5. widget' = Mod!RemoveBackdrop(n) BY <1>2, <3>3 DEF Mod!Called
    <3>6. /\ widget'.backs = n.backs \ {n.back} /\ widget'.back = NoBack
          /\ widget'.dismiss = n.dismiss /\ widget'.visible = n.visible /\ widget'.in = n.in
          /\ ~widget'.open /\ widget'.guards = n.guards
          /\ widget'.waiting = {w \in n.waiting : w[1] # n.back}
      BY <1>4, <3>5, BackdropRemoved
    <3>7. widget'.waiting = {} BY <3>4, <3>6
    <3>8. widget'.backs = {} BY <1>4, <2>3, <3>6 DEF Clearing, Backed
    <3>9. ~widget'.isShown /\ widget'.hiding = 0 /\ ~widget'.visible /\ ~widget'.in
      BY <1>4, <1>5, <2>3, <3>6 DEF Clearing, Held
    <3>10. Handled(widget')
      BY <1>4, <1>5, <2>1, <3>6, <3>9 DEF Handled, Held
    <3> QED BY <3>6, <3>7, <3>8, <3>9, <3>10 DEF Away
  <2> QED BY <2>1, <2>2, <2>3
<1>9. Staged(widget') BY <1>4, <1>5, <1>8 DEF Staged, Held
<1> QED BY <1>5, <1>7, <1>9 DEF ModInv, ModalOk

LEMMA ModalInit == Mod!Init => ModInv
<1> SUFFICES ASSUME Mod!Init PROVE ModInv
  OBVIOUS
<1>1. PICK fade \in BOOLEAN, keyboard \in BOOLEAN, drop \in {"none", "close", "static"} :
        widget = [fade |-> fade, keyboard |-> keyboard, drop |-> drop, isShown |-> FALSE,
                  visible |-> FALSE, in |-> FALSE, open |-> FALSE, backs |-> {},
                  back |-> NoBack, escapes |-> 0, dismiss |-> 0, guards |-> 0, hiding |-> 0,
                  waiting |-> {}, calm |-> TRUE]
  BY DEF Mod!Init
<1>2. 0 \in 0 .. MaxHides BY WidgetAssumption
<1>3. /\ widget \in Mod!State /\ ~widget.isShown /\ Away(widget) /\ Handled(widget)
  BY <1>1, <1>2 DEF Mod!State, Away, Handled
<1> QED BY <1>3 DEF ModInv, ModalOk, Roomy, Staged

LEMMA ModalNext == ModInv /\ Mod!Next => ModInv'
<1> SUFFICES ASSUME ModInv, Mod!Next PROVE ModInv'
  OBVIOUS
<1>1. ASSUME Mod!Room, NEW prevented \in BOOLEAN, widget' = Mod!Show(widget, prevented)
      PROVE  ModInv'
  BY <1>1, Counting, ModalShow DEF ModInv, Mod!Room
<1>2. ASSUME widget.hiding < MaxHides, NEW prevented \in BOOLEAN,
             widget' = Mod!Hide(widget, prevented)
      PROVE  ModInv'
  BY <1>2, ModalHide DEF ModInv
<1>3. CASE Mod!DialogEnd BY <1>3, ModalDialogEnd
<1>4. ASSUME NEW b \in Back, Mod!BackdropEnd(b) PROVE ModInv'
  BY <1>4, ModalBackdropEnd
<1>5. ASSUME NEW prevented \in BOOLEAN, Mod!Click(prevented) PROVE ModInv'
  BY <1>1, <1>5 DEF Mod!Click
<1>6. ASSUME NEW prevented \in BOOLEAN, Mod!Script(prevented) PROVE ModInv'
  BY <1>1, <1>2, <1>6 DEF Mod!Script
<1>7. ASSUME NEW prevented \in BOOLEAN, Mod!Dismiss(prevented) PROVE ModInv'
  BY <1>2, <1>7 DEF Mod!Dismiss
<1> QED BY <1>3, <1>4, <1>5, <1>6, <1>7 DEF Mod!Next

LEMMA ModalRest == ModInv => Mod!ModalWhole
<1> SUFFICES ASSUME ModInv, widget.calm, Mod!AtRest
             PROVE  /\ widget.visible = widget.isShown /\ widget.in = widget.isShown
                    /\ widget.open = widget.isShown
                    /\ Cardinality(widget.backs)
                         = Mod!One(widget.isShown /\ widget.drop # "none")
                    /\ widget.escapes = Mod!One(widget.isShown /\ widget.keyboard)
                    /\ widget.dismiss = Mod!One(widget.isShown)
                                        + Mod!One(widget.isShown /\ widget.drop # "none")
                    /\ widget.guards = Mod!One(widget.isShown)
  BY Counting DEF Mod!ModalWhole
<1>1. Handled(widget) /\ (Away(widget) \/ There(widget)) /\ widget \in Mod!State
  <2>1. widget.hiding = 0 /\ <<widget.back, "reveal">> \notin widget.waiting
        /\ <<widget.back, "remove">> \notin widget.waiting
    BY DEF Mod!AtRest
  <2>2. ~Coming(widget) /\ ~Fading(widget) /\ ~Clearing(widget)
    BY <2>1 DEF Coming, Fading, Clearing
  <2> QED BY <2>2 DEF ModInv, ModalOk, Staged
<1>2. widget.visible \in BOOLEAN /\ widget.isShown \in BOOLEAN /\ widget.in \in BOOLEAN
      /\ widget.open \in BOOLEAN
  BY <1>1 DEF Mod!State
<1>3. CASE Away(widget)
  <2>1. Cardinality(widget.backs) = 0 BY <1>3, FS_EmptySet DEF Away
  <2> QED BY <1>1, <1>2, <1>3, <2>1 DEF Away, Handled, Mod!One
<1>4. CASE There(widget)
  <2>1. Cardinality(widget.backs) = IF widget.drop # "none" THEN 1 ELSE 0
    BY <1>4, FS_EmptySet, FS_Singleton DEF There, Backed
  <2> QED BY <1>1, <1>2, <1>4, <2>1 DEF There, Handled, Mod!One
<1> QED BY <1>1, <1>3, <1>4

-----------------------------------------------------------------------------
(* The scroll spy.                                                         *)

LEMMA LeastNat ==
  ASSUME NEW S, S \subseteq Nat, S # {}
  PROVE  \E x \in S : \A y \in S : x <= y
<1> DEFINE R == {z \in Nat \X Nat : z[1] < z[2]}
<1>1. IsWellFoundedOn(R, Nat) BY NatLessThanWellFounded DEF OpToRel
<1>2. PICK x \in S : \A y \in S : <<y, x>> \notin R BY <1>1, WFMin
<1>3. ASSUME NEW y \in S PROVE x <= y
  <2>1. <<y, x>> \notin R BY <1>2
  <2> QED BY <2>1
<1> QED BY <1>3

\* Of the sections of T one begins first; the sections of T can be sorted.
First(top, T) == \E t \in T : \A u \in T : top[t] <= top[u]
Sorting(top, T, s) ==
  /\ s \in [1 .. Cardinality(T) -> T]
  /\ \A i, j \in 1 .. Cardinality(T) :
       (s[i] = s[j] => i = j) /\ (i < j => top[s[i]] <= top[s[j]])

LEMMA FirstOfSections ==
  ASSUME NEW top \in [Section -> Top], NEW T \in SUBSET Section, T # {}
  PROVE  First(top, T)
<1> DEFINE Bad == {n \in Nat : \E U \in SUBSET Section :
                     U # {} /\ Cardinality(U) = n /\ ~First(top, U)}
<1>1. \A U \in SUBSET Section : IsFiniteSet(U) /\ Cardinality(U) \in Nat
  BY WidgetAssumption, FS_Subset, FS_CardinalityType
<1>2. \A t \in Section : top[t] \in Int BY WidgetAssumption
<1>3. ASSUME Bad # {} PROVE FALSE
  <2>1. PICK n \in Bad : \A k \in Bad : n <= k BY <1>3, LeastNat
  <2>2. PICK U \in SUBSET Section : U # {} /\ Cardinality(U) = n /\ ~First(top, U) BY <2>1
  <2>3. PICK t \in U : TRUE BY <2>2
  <2>4. Cardinality(U \ {t}) = n - 1 /\ U \ {t} \in SUBSET Section /\ n \in Nat
    BY <1>1, <2>2, <2>3, FS_RemoveElement
  <2>5. Cardinality(U \ {t}) \in Nat BY <1>1, <2>4
  <2>6. U \ {t} # {}
    <3>1. ASSUME U = {t} PROVE FALSE
      <4>1. \A u \in U : top[t] <= top[u] BY <1>2, <2>2, <2>3, <3>1
      <4> QED BY <2>2, <2>3, <4>1 DEF First
    <3> QED BY <2>3, <3>1
  <2>7. Cardinality(U \ {t}) \notin Bad
    <3> HIDE DEF Bad
    <3> QED BY <2>1, <2>4, <2>5
  <2>8. First(top, U \ {t}) BY <2>4, <2>5, <2>6, <2>7
  <2>9. PICK v \in U \ {t} : \A u \in U \ {t} : top[v] <= top[u] BY <2>8 DEF First
  <2>10. top[t] \in Int /\ top[v] \in Int /\ \A u \in U : top[u] \in Int
    BY <1>2, <2>2, <2>3, <2>9
  <2>11. CASE top[t] <= top[v]
    <3>1. \A u \in U : top[t] <= top[u] BY <2>9, <2>10, <2>11
    <3> QED BY <2>2, <2>3, <3>1 DEF First
  <2>12. CASE top[v] < top[t]
    <3>1. \A u \in U : top[v] <= top[u] BY <2>9, <2>10, <2>12
    <3> QED BY <2>2, <2>9, <3>1 DEF First
  <2> QED BY <2>10, <2>11, <2>12
<1> QED BY <1>1, <1>3

LEMMA SortingExists ==
  ASSUME NEW top \in [Section -> Top], NEW T \in SUBSET Section
  PROVE  \E s : Sorting(top, T, s)
<1> DEFINE Bad == {n \in Nat : \E U \in SUBSET Section :
                     Cardinality(U) = n /\ ~\E s : Sorting(top, U, s)}
<1>1. \A U \in SUBSET Section : IsFiniteSet(U) /\ Cardinality(U) \in Nat
  BY WidgetAssumption, FS_Subset, FS_CardinalityType
<1>2. \A t \in Section : top[t] \in Int BY WidgetAssumption
<1>3. ASSUME Bad # {} PROVE FALSE
  <2>1. PICK n \in Bad : \A k \in Bad : n <= k BY <1>3, LeastNat
  <2>2. PICK U \in SUBSET Section : Cardinality(U) = n /\ ~\E s : Sorting(top, U, s) BY <2>1
  <2>3. U # {}
    <3>1. ASSUME U = {} PROVE FALSE
      <4>1. Cardinality(U) = 0 BY <3>1, FS_EmptySet
      <4>2. 1 .. Cardinality(U) = {} BY <4>1
      <4>3. [x \in {} |-> x] \in [1 .. Cardinality(U) -> U] BY <4>2
      <4>4. Sorting(top, U, [x \in {} |-> x]) BY <4>2, <4>3 DEF Sorting
      <4> QED BY <2>2, <4>4
    <3> QED BY <3>1
  <2>4. PICK t \in U : \A u \in U : top[t] <= top[u] BY <2>2, <2>3, FirstOfSections DEF First
  <2>5. Cardinality(U \ {t}) = n - 1 /\ U \ {t} \in SUBSET Section /\ n \in Nat
    BY <1>1, <2>2, <2>4, FS_RemoveElement
  <2>6. Cardinality(U \ {t}) \in Nat BY <1>1, <2>5
  <2>7. Cardinality(U \ {t}) \notin Bad
    <3> HIDE DEF Bad
    <3> QED BY <2>1, <2>5, <2>6
  <2>8. PICK s : Sorting(top, U \ {t}, s) BY <2>5, <2>6, <2>7
  <2>9. /\ s \in [1 .. n - 1 -> U \ {t}]
        /\ \A i, j \in 1 .. n - 1 :
             (s[i] = s[j] => i = j) /\ (i < j => top[s[i]] <= top[s[j]])
    BY <2>5, <2>8 DEF Sorting
  <2> DEFINE r == [i \in 1 .. n |-> IF i = 1 THEN t ELSE s[i - 1]]
  <2>10. \A i \in 1 .. n : i = 1 \/ i - 1 \in 1 .. n - 1 BY <2>5
  <2>11. r \in [1 .. n -> U] BY <2>4, <2>9, <2>10
  <2>12. ASSUME NEW i \in 1 .. n, NEW j \in 1 .. n
         PROVE  (r[i] = r[j] => i = j) /\ (i < j => top[r[i]] <= top[r[j]])
    <3>1. CASE i = 1 /\ j = 1 BY <3>1
    <3>2. CASE i = 1 /\ j # 1
      <4>1. r[i] = t /\ r[j] = s[j - 1] /\ s[j - 1] \in U \ {t} BY <2>9, <2>10, <3>2
      <4> QED BY <2>4, <3>2, <4>1
    <3>3. CASE i # 1 /\ j = 1
      <4>1. r[j] = t /\ r[i] = s[i - 1] /\ s[i - 1] \in U \ {t} BY <2>9, <2>10, <3>3
      <4>2. ~(i < j) BY <2>5, <3>3
      <4> QED BY <4>1, <4>2
    <3>4. CASE i # 1 /\ j # 1
      <4>1. r[i] = s[i - 1] /\ r[j] = s[j - 1] /\ i - 1 \in 1 .. n - 1 /\ j - 1 \in 1 .. n - 1
        BY <2>10, <3>4
      <4>2. (s[i - 1] = s[j - 1] => i - 1 = j - 1)
            /\ (i - 1 < j - 1 => top[s[i - 1]] <= top[s[j - 1]])
        BY <2>9, <4>1
      <4> HIDE DEF r
      <4> QED BY <2>5, <4>1, <4>2
    <3> QED BY <3>1, <3>2, <3>3, <3>4
  <2> HIDE DEF r
  <2>13. Sorting(top, U, r) BY <2>2, <2>11, <2>12 DEF Sorting
  <2> QED BY <2>2, <2>13
<1> QED BY <1>1, <1>3

\* The sections in the order of their beginnings, every one of them once.
LEMMA SpySorted ==
  ASSUME NEW top \in [Section -> Top], NEW s, s = Spy!Sorted(top)
  PROVE  /\ s \in [1 .. Cardinality(Section) -> Section]
         /\ \A i, j \in 1 .. Cardinality(Section) :
              (s[i] = s[j] => i = j) /\ (i < j => top[s[i]] <= top[s[j]])
         /\ \A t \in Section : \E i \in 1 .. Cardinality(Section) : s[i] = t
<1> DEFINE n == Cardinality(Section)
           Good(r) == /\ r \in [1 .. n -> Section]
                      /\ Spy!IsInjective(r)
                      /\ \A i, j \in DOMAIN r : i < j => top[r[i]] <= top[r[j]]
<1>1. PICK r : Sorting(top, Section, r) BY SortingExists
<1>2. Good(r) BY <1>1 DEF Sorting, Spy!IsInjective
<1>3. s = CHOOSE q \in [1 .. n -> Section] :
            Spy!IsInjective(q) /\ \A i, j \in DOMAIN q : i < j => top[q[i]] <= top[q[j]]
  BY Counting DEF Spy!Sorted
<1>4. Good(s)
  <2> HIDE DEF n
  <2> QED BY <1>2, <1>3
<1>5. /\ s \in [1 .. n -> Section]
      /\ \A i, j \in 1 .. n : (s[i] = s[j] => i = j) /\ (i < j => top[s[i]] <= top[s[j]])
  BY <1>4 DEF Spy!IsInjective
<1>6. ASSUME NEW t \in Section, \A i \in 1 .. n : s[i] # t PROVE FALSE
  <2>1. s \in [1 .. n -> Section \ {t}] BY <1>5, <1>6
  <2>2. n \in Nat BY WidgetAssumption, FS_CardinalityType
  <2>3. IsFiniteSet(1 .. n) /\ Cardinality(1 .. n) = n BY <2>2, FS_Interval
  <2>4. IsFiniteSet(Section \ {t}) /\ Cardinality(Section \ {t}) = n - 1
    BY WidgetAssumption, FS_RemoveElement
  <2>5. \E i, j \in 1 .. n : i # j /\ s[i] = s[j]
    <3> HIDE DEF n
    <3> QED BY <2>1, <2>2, <2>3, <2>4, FS_PigeonHole
  <2> QED BY <1>5, <2>5
<1> QED BY <1>5, <1>6

\* As of the last refresh the offsets rise with the targets, which are all sections.
Ordered(s) ==
  /\ \A i, j \in 1 .. Cardinality(Section) :
       (s.order[i] = s.order[j] => i = j) /\ (i < j => s.offsets[i] <= s.offsets[j])
  /\ \A t \in Section : \E i \in 1 .. Cardinality(Section) : s.order[i] = t
Agrees(s) == s.offsets = [i \in DOMAIN s.order |-> s.top[s.order[i]]]

\* The marked section is the right one for the layout and the position, where SpyRight
\* says which that is.
Latest(s, S) == {t \in S : \A u \in S : s.top[u] <= s.top[t]}
Above(s) == {t \in Section : s.top[t] < s.position}
Right(s) ==
  Above(s) # {} /\ (\A t \in Section : s.top[t] # s.position)
  /\ (\A t, u \in Section : s.top[t] = 0 => t = u \/ s.top[u] > 0)
  => s.active \in IF s.position >= MaxScroll THEN Latest(s, Section) ELSE Latest(s, Above(s))
SpyInv == widget \in Spy!State /\ Ordered(widget) /\ (widget.fresh => Right(widget))

\* What begins above the position and is followed by nothing above it began last.
LEMMA LastAbove ==
  ASSUME NEW s \in Spy!State, Ordered(s), Agrees(s),
         NEW i \in 1 .. Cardinality(Section), s.offsets[i] < s.position,
         i = Cardinality(Section) \/ s.position < s.offsets[i + 1]
  PROVE  s.order[i] \in Latest(s, Above(s))
<1> DEFINE n == Cardinality(Section)
<1>1. /\ n \in Nat /\ s.position \in Int
      /\ \A k \in 1 .. n : s.order[k] \in Section /\ s.offsets[k] \in Int
                           /\ s.offsets[k] = s.top[s.order[k]]
  BY Counting, WidgetAssumption, FS_CardinalityType DEF Spy!State, Agrees
<1>2. s.order[i] \in Above(s) BY <1>1 DEF Above
<1>3. ASSUME NEW u \in Above(s) PROVE s.top[u] <= s.top[s.order[i]]
  <2>1. PICK j \in 1 .. n : s.order[j] = u BY DEF Ordered, Above
  <2>2. s.offsets[j] < s.position BY <1>1, <2>1 DEF Above
  <2>3. CASE j = i BY <1>1, <2>1, <2>3
  <2>4. CASE j < i BY <1>1, <2>1, <2>4 DEF Ordered
  <2>5. CASE i < j
    <3>1. i + 1 \in 1 .. n /\ s.position < s.offsets[i + 1] BY <1>1, <2>5
    <3>2. s.offsets[i + 1] <= s.offsets[j]
      <4>1. CASE i + 1 = j BY <1>1, <4>1
      <4>2. CASE i + 1 < j BY <3>1, <4>2 DEF Ordered
      <4> QED BY <1>1, <2>5, <4>1, <4>2
    <3> HIDE DEF n
    <3> QED BY <1>1, <2>2, <3>1, <3>2
  <2> QED BY <1>1, <2>3, <2>4, <2>5
<1> QED BY <1>2, <1>3 DEF Latest

LEMMA SpyProcess ==
  ASSUME NEW s \in Spy!State, Ordered(s), NEW d, d = Spy!Process(s)
  PROVE  /\ d \in Spy!State /\ Ordered(d) /\ d.top = s.top /\ d.order = s.order
         /\ d.offsets = s.offsets /\ (Agrees(s) => Right(d))
<1> DEFINE n == Cardinality(Section)
           hits == Spy!Hits(s)
<1>1. /\ n \in Nat /\ s.position \in Int /\ s.active \in Section
      /\ \A k \in 1 .. n : s.order[k] \in Section /\ s.offsets[k] \in Int
      /\ DOMAIN s.order = 1 .. n /\ DOMAIN s.offsets = 1 .. n
      /\ Len(s.order) = n /\ Len(s.offsets) = n
  <2>1. n \in Nat /\ s.order \in [1 .. n -> Section] /\ s.offsets \in [1 .. n -> Top]
        /\ s.position \in Position /\ s.active \in Section
    BY Counting, WidgetAssumption, FS_CardinalityType DEF Spy!State
  <2> HIDE DEF n
  <2>2. s.order \in Seq(Section) /\ s.offsets \in Seq(Top) BY <2>1, SeqDef
  <2>3. Len(s.order) = n /\ Len(s.offsets) = n BY <2>1, <2>2, LenProperties
  <2> QED BY <2>1, <2>3, WidgetAssumption
<1>0. MaxScroll \in Int /\ ~(s.position < MaxScroll /\ s.position >= MaxScroll)
      /\ (s.position < MaxScroll \/ s.position >= MaxScroll)
  <2>1. MaxScroll \in Int BY WidgetAssumption
  <2> QED BY <1>1, <2>1
<1>2. n > 0 /\ n \in 1 .. n
  <2>1. n # 0 BY <1>1, WidgetAssumption, FS_EmptySet
  <2> HIDE DEF n
  <2> QED BY <1>1, <2>1
<1>3. hits \subseteq 1 .. n BY <1>1 DEF Spy!Hits
<1>4. hits # {} => Spy!Min(hits) \in hits
  <2>1. ASSUME hits # {} PROVE Spy!Min(hits) \in hits
    <3>1. hits \subseteq Nat BY <1>3
    <3> HIDE DEF hits
    <3>2. \E x \in hits : \A y \in hits : x <= y BY <2>1, <3>1, LeastNat
    <3> QED BY <3>2 DEF Spy!Min
  <2> QED BY <2>1
<1>5. d = IF s.position >= MaxScroll THEN [s EXCEPT !.active = s.order[n]]
          ELSE IF hits = {} THEN s ELSE [s EXCEPT !.active = s.order[Spy!Min(hits)]]
  BY <1>1 DEF Spy!Process, Spy!Last
<1> DEFINE to == d.active
<1>6. /\ d \in Spy!State /\ d.top = s.top /\ d.order = s.order /\ d.offsets = s.offsets
      /\ d.position = s.position
      /\ to = IF s.position >= MaxScroll THEN s.order[n]
              ELSE IF hits = {} THEN s.active ELSE s.order[Spy!Min(hits)]
  <2>1. s.order[n] \in Section BY <1>1, <1>2
  <2>2. hits # {} => s.order[Spy!Min(hits)] \in Section BY <1>1, <1>3, <1>4
  <2> HIDE DEF hits, n
  <2> QED BY <1>5, <2>1, <2>2 DEF Spy!State
<1>7. Ordered(d) BY <1>6 DEF Ordered
<1>8. ASSUME Agrees(s), Above(s) # {}, \A t \in Section : s.top[t] # s.position,
             \A t, u \in Section : s.top[t] = 0 => t = u \/ s.top[u] > 0
      PROVE  to \in IF s.position >= MaxScroll THEN Latest(s, Section) ELSE Latest(s, Above(s))
  <2>1. \A k \in 1 .. n : s.offsets[k] = s.top[s.order[k]] /\ s.offsets[k] # s.position
    BY <1>1, <1>8 DEF Agrees
  <2>2. CASE s.position >= MaxScroll
    <3>1. to = s.order[n] /\ s.order[n] \in Section BY <1>1, <1>2, <1>6, <2>2
    <3>2. ASSUME NEW u \in Section PROVE s.top[u] <= s.top[s.order[n]]
      <4>1. PICK j \in 1 .. n : s.order[j] = u BY DEF Ordered
      <4>2. s.offsets[j] <= s.offsets[n]
        <5>1. CASE j = n BY <1>1, <1>2, <5>1
        <5>2. CASE j < n BY <1>2, <5>2 DEF Ordered
        <5> QED BY <1>1, <4>1, <5>1, <5>2
      <4> QED BY <1>2, <2>1, <4>1, <4>2
    <3> QED BY <2>2, <3>1, <3>2 DEF Latest
  <2>3. CASE s.position < MaxScroll
    <3>1. to = IF hits = {} THEN s.active ELSE s.order[Spy!Min(hits)]
      BY <1>0, <1>6, <2>3
    <3>2. \A i \in 1 .. n : i # n => i + 1 \in 1 .. n /\ s.offsets[i + 1] # 0
      <4>1. ASSUME NEW i \in 1 .. n, i # n PROVE i + 1 \in 1 .. n /\ s.offsets[i + 1] # 0
        <5>1. i + 1 \in 1 .. n /\ 1 \in 1 .. n /\ 1 < i + 1 BY <1>1, <4>1
        <5>2. s.order[1] # s.order[i + 1] /\ s.offsets[1] <= s.offsets[i + 1]
          BY <5>1 DEF Ordered
        <5>3. ASSUME s.offsets[i + 1] = 0 PROVE FALSE
          <6>1. s.top[s.order[i + 1]] = 0 /\ s.order[i + 1] \in Section /\ s.order[1] \in Section
            BY <1>1, <2>1, <5>1, <5>3
          <6>2. s.top[s.order[1]] > 0 BY <1>8, <5>2, <6>1
          <6>3. s.offsets[1] > 0 /\ s.offsets[1] \in Int BY <1>1, <2>1, <5>1, <6>2
          <6> QED BY <5>2, <5>3, <6>3
        <5> QED BY <5>1, <5>3
      <4> QED BY <4>1
    <3>3. \A i \in 1 .. n : Spy!Below(s, i) <=> i = n \/ s.position < s.offsets[i + 1]
      <4> HIDE DEF n
      <4> QED BY <1>1, <2>1, <3>2 DEF Spy!Below
    <3>4. \A i \in 1 .. n : i \in hits <=>
            s.order[i] # s.active /\ s.offsets[i] < s.position /\ Spy!Below(s, i)
      <4> HIDE DEF n
      <4> QED BY <1>1, <2>1 DEF Spy!Hits
    <3>5. \A i \in 1 .. n : s.offsets[i] < s.position /\ Spy!Below(s, i)
                              => s.order[i] \in Latest(s, Above(s))
      BY <1>8, <3>3, LastAbove
    <3>6. CASE hits # {}
      <4>1. Spy!Min(hits) \in hits BY <1>4, <3>6
      <4> HIDE DEF hits
      <4> QED BY <1>0, <1>3, <2>3, <3>1, <3>4, <3>5, <3>6, <4>1
    <3>7. CASE hits = {}
      <4> DEFINE before == {i \in 1 .. n : s.offsets[i] < s.position}
                 gaps == {n - i : i \in before}
      <4>1. before # {}
        <5>1. PICK t \in Section : s.top[t] < s.position BY <1>8 DEF Above
        <5>2. PICK i \in 1 .. n : s.order[i] = t BY DEF Ordered
        <5>3. s.offsets[i] < s.position BY <2>1, <5>1, <5>2
        <5> QED BY <5>3
      <4>2. gaps \subseteq Nat /\ gaps # {}
        <5> HIDE DEF n
        <5> QED BY <1>1, <4>1
      <4>3. PICK g \in gaps : \A h \in gaps : g <= h
        <5> HIDE DEF gaps
        <5> QED BY <4>2, LeastNat
      <4>4. PICK i \in before : g = n - i BY <4>3
      <4>5. ASSUME NEW j \in before PROVE j <= i
        <5>1. n - j \in gaps BY <4>5
        <5>2. n - i <= n - j
          <6> HIDE DEF gaps, n
          <6> QED BY <4>3, <4>4, <5>1
        <5>3. i \in Int /\ j \in Int OBVIOUS
        <5> HIDE DEF n
        <5> QED BY <1>1, <5>2, <5>3
      <4>6. i \in 1 .. n /\ s.offsets[i] < s.position OBVIOUS
      <4>7. i = n \/ s.position < s.offsets[i + 1]
        <5>1. CASE i # n
          <6>1. i + 1 \in 1 .. n BY <3>2, <4>6, <5>1
          <6>2. i + 1 \notin before
            <7>1. ~(i + 1 <= i) BY <4>6
            <7> HIDE DEF before
            <7> QED BY <4>5, <7>1
          <6>3. ~(s.offsets[i + 1] < s.position) BY <6>1, <6>2
          <6> HIDE DEF n
          <6> QED BY <1>1, <2>1, <6>1, <6>3
        <5> QED BY <5>1
      <4>8. Spy!Below(s, i)
        <5> HIDE DEF n, before
        <5> QED BY <3>3, <4>6, <4>7
      <4>9. s.order[i] = s.active
        <5> HIDE DEF n, before, hits
        <5> QED BY <3>4, <3>7, <4>6, <4>8
      <4>10. s.order[i] \in Latest(s, Above(s))
        <5> HIDE DEF n, before
        <5> QED BY <3>5, <4>6, <4>8
      <4>11. to = s.active BY <3>1, <3>7
      <4>12. to \in Latest(s, Above(s))
        <5> HIDE DEF to
        <5> QED BY <4>9, <4>10, <4>11
      <4> HIDE DEF to
      <4> QED BY <1>0, <2>3, <4>12
    <3> QED BY <3>6, <3>7
  <2> QED BY <1>0, <2>2, <2>3
<1>9. Agrees(s) => Right(d)
  <2> SUFFICES ASSUME Agrees(s), Above(d) # {}, \A t \in Section : d.top[t] # d.position,
                      \A t, u \in Section : d.top[t] = 0 => t = u \/ d.top[u] > 0
               PROVE  d.active \in IF d.position >= MaxScroll THEN Latest(d, Section)
                                                              ELSE Latest(d, Above(d))
    BY DEF Right
  <2>1. Above(d) = Above(s) BY <1>6 DEF Above
  <2>2. Latest(d, Section) = Latest(s, Section) /\ Latest(d, Above(s)) = Latest(s, Above(s))
    BY <1>6 DEF Latest
  <2> QED BY <1>6, <1>8, <2>1, <2>2
<1> QED BY <1>6, <1>7, <1>9

\* refresh, from whatever targets and offsets there were.
LEMMA SpyRefreshed ==
  ASSUME NEW s, NEW top \in [Section -> Top], NEW position \in Position,
         NEW active \in Section, NEW fresh, NEW order, NEW offsets,
         s = [top |-> top, order |-> order, offsets |-> offsets, fresh |-> fresh,
              position |-> position, active |-> active],
         NEW d, d = Spy!Refreshed(s)
  PROVE  d \in Spy!State /\ Ordered(d) /\ ~d.fresh /\ Agrees(d)
<1> DEFINE n == Cardinality(Section)
           new == Spy!Sorted(top)
           begins == [i \in DOMAIN new |-> top[new[i]]]
<1>1. /\ new \in [1 .. n -> Section]
      /\ \A i, j \in 1 .. n :
           (new[i] = new[j] => i = j) /\ (i < j => top[new[i]] <= top[new[j]])
      /\ \A t \in Section : \E i \in 1 .. n : new[i] = t
  BY SpySorted
<1>2. /\ s.top = top /\ d = [s EXCEPT !.order = new,
                                    !.offsets = [i \in DOMAIN new |-> s.top[new[i]]],
                                    !.fresh = FALSE]
  BY DEF Spy!Refreshed
<1>3. d = [s EXCEPT !.order = new, !.offsets = begins, !.fresh = FALSE]
  BY <1>2, Zenon
<1> HIDE DEF new
<1>4. begins \in [1 .. n -> Top] /\ \A i \in 1 .. n : begins[i] = top[new[i]]
  BY <1>1
<1> HIDE DEF begins, n
<1>5. d = [top |-> top, order |-> new, offsets |-> begins, fresh |-> FALSE,
           position |-> position, active |-> active]
  BY <1>3
<1>6. d.top = top /\ d.order = new /\ d.offsets = begins /\ ~d.fresh
  BY <1>5
<1>7. d \in Spy!State
  <2>1. Spy!Cardinality(Section) = n BY Counting DEF n
  <2>2. new \in [1 .. n -> Section] /\ begins \in [1 .. n -> Top] BY <1>1, <1>4
  <2>3. Spy!State = [top : [Section -> Top], order : [1 .. n -> Section],
                     offsets : [1 .. n -> Top], position : Position, active : Section,
                     fresh : BOOLEAN]
    BY <2>1, Zenon DEF Spy!State
  <2>4. [top |-> top, order |-> new, offsets |-> begins, fresh |-> FALSE,
         position |-> position, active |-> active] \in Spy!State
    BY <2>2, <2>3
  <2> QED BY <1>5, <2>4, Zenon
<1>8. Ordered(d)
  <2>1. ASSUME NEW i \in 1 .. n, NEW j \in 1 .. n
        PROVE  /\ d.order[i] = d.order[j] => i = j
               /\ i < j => d.offsets[i] <= d.offsets[j]
    <3>1. (new[i] = new[j] => i = j) /\ (i < j => top[new[i]] <= top[new[j]]) BY <1>1
    <3>2. begins[i] = top[new[i]] /\ begins[j] = top[new[j]] BY <1>4
    <3> QED BY <1>6, <3>1, <3>2
  <2>2. \A t \in Section : \E i \in 1 .. n : d.order[i] = t BY <1>1, <1>6
  <2> QED BY <2>1, <2>2 DEF Ordered, n
<1>9. Agrees(d) BY <1>6, Zenon DEF Agrees, begins
<1> QED BY <1>6, <1>7, <1>8, <1>9

LEMMA SpyFresh ==
  ASSUME NEW s \in Spy!State, Ordered(s), NEW fresh \in BOOLEAN, fresh => Right(s),
         widget' = [s EXCEPT !.fresh = fresh]
  PROVE  SpyInv'
<1>1. /\ widget' \in Spy!State /\ widget'.fresh = fresh /\ widget'.top = s.top
      /\ widget'.order = s.order /\ widget'.offsets = s.offsets
      /\ widget'.position = s.position /\ widget'.active = s.active
  BY DEF Spy!State
<1>2. Ordered(widget') BY <1>1 DEF Ordered
<1>3. fresh => Right(widget') BY <1>1 DEF Right, Above, Latest
<1> QED BY <1>1, <1>2, <1>3 DEF SpyInv

LEMMA SpyInit == Spy!Init => SpyInv
<1> SUFFICES ASSUME Spy!Init PROVE SpyInv
  OBVIOUS
<1>1. PICK top \in [Section -> Top], position \in Position, active \in Section :
        widget = [Spy!Process(Spy!Refreshed(
                    [top |-> top, order |-> <<>>, offsets |-> <<>>, fresh |-> FALSE,
                     position |-> position, active |-> active])) EXCEPT !.fresh = TRUE]
  BY DEF Spy!Init
<1> DEFINE s == Spy!Refreshed([top |-> top, order |-> <<>>, offsets |-> <<>>, fresh |-> FALSE,
                               position |-> position, active |-> active])
           d == Spy!Process(s)
<1>2. s \in Spy!State /\ Ordered(s) /\ Agrees(s) BY SpyRefreshed
<1> HIDE DEF s
<1>3. d \in Spy!State /\ Ordered(d) /\ Right(d) BY <1>2, SpyProcess
<1>4. widget = [d EXCEPT !.fresh = TRUE] BY <1>1 DEF s
<1> HIDE DEF d
<1>5. /\ widget \in Spy!State /\ widget.fresh /\ widget.top = d.top
      /\ widget.order = d.order /\ widget.offsets = d.offsets
      /\ widget.position = d.position /\ widget.active = d.active
  BY <1>3, <1>4 DEF Spy!State
<1>6. Ordered(widget) BY <1>3, <1>5 DEF Ordered
<1>7. Right(widget) BY <1>3, <1>5 DEF Right, Above, Latest
<1> QED BY <1>5, <1>6, <1>7 DEF SpyInv

LEMMA SpyNext == SpyInv /\ Spy!Next => SpyInv'
<1> SUFFICES ASSUME SpyInv, Spy!Next PROVE SpyInv'
  OBVIOUS
<1>1. widget \in Spy!State /\ Ordered(widget) BY DEF SpyInv
<1>2. CASE Spy!Scroll
  <2>1. PICK position \in Position :
          widget' = [Spy!Process([widget EXCEPT !.position = position]) EXCEPT
                       !.fresh = widget.offsets
                                   = [i \in DOMAIN widget.order |-> widget.top[widget.order[i]]]]
    BY <1>2 DEF Spy!Scroll
  <2> DEFINE s == [widget EXCEPT !.position = position]
             d == Spy!Process(s)
  <2>2. /\ s \in Spy!State /\ s.order = widget.order /\ s.offsets = widget.offsets
        /\ s.top = widget.top
    BY <1>1 DEF Spy!State
  <2> HIDE DEF s
  <2>3. Ordered(s) /\ (Agrees(s) <=> Agrees(widget)) BY <1>1, <2>2 DEF Ordered, Agrees
  <2>4. d \in Spy!State /\ Ordered(d) /\ (Agrees(s) => Right(d)) BY <2>2, <2>3, SpyProcess
  <2>5. widget' = [d EXCEPT !.fresh = Agrees(widget)] BY <2>1 DEF Agrees, s
  <2>6. Agrees(widget) \in BOOLEAN BY DEF Agrees
  <2> HIDE DEF d
  <2> QED BY <2>3, <2>4, <2>5, <2>6, SpyFresh
<1>3. CASE Spy!Refresh
  <2>1. widget = [top |-> widget.top, order |-> widget.order, offsets |-> widget.offsets,
                  fresh |-> widget.fresh, position |-> widget.position,
                  active |-> widget.active]
    BY <1>1 DEF Spy!State
  <2>2. /\ widget.top \in [Section -> Top] /\ widget.position \in Position
        /\ widget.active \in Section
    BY <1>1 DEF Spy!State
  <2>3. widget' = Spy!Refreshed(widget) BY <1>3 DEF Spy!Refresh
  <2>4. widget' \in Spy!State /\ Ordered(widget') /\ ~widget'.fresh
    BY <2>1, <2>2, <2>3, SpyRefreshed
  <2> QED BY <2>4 DEF SpyInv
<1>4. CASE Spy!Layout
  <2>1. PICK top \in [Section -> Top] :
          widget' = [widget EXCEPT !.top = top, !.fresh = FALSE]
    BY <1>4 DEF Spy!Layout
  <2>2. /\ widget' \in Spy!State /\ ~widget'.fresh /\ widget'.order = widget.order
        /\ widget'.offsets = widget.offsets
    BY <1>1, <2>1 DEF Spy!State
  <2>3. Ordered(widget') BY <1>1, <2>2 DEF Ordered
  <2> QED BY <2>2, <2>3 DEF SpyInv
<1> QED BY <1>2, <1>3, <1>4 DEF Spy!Next

LEMMA SpyMarks == SpyInv => Spy!SpyRight
  BY DEF SpyInv, Right, Above, Latest, Spy!SpyRight

-----------------------------------------------------------------------------
(* All widgets.                                                            *)

WidgetInv ==
  /\ kind = "tooltip" => TipInv
  /\ kind = "carousel" => CarInv
  /\ kind = "collapse" => PanInv
  /\ kind = "modal" => ModInv
  /\ kind = "tab" => TabInv
  /\ kind = "scrollspy" => SpyInv

LEMMA WidgetInit == Init => WidgetInv
  BY TipInit, CarInit, PanInit, ModalInit, TabInit, SpyInit DEF Init, WidgetInv

LEMMA WidgetNext == WidgetInv /\ [Next]_vars => WidgetInv'
<1> SUFFICES ASSUME WidgetInv, [Next]_vars PROVE WidgetInv'
  OBVIOUS
<1>1. CASE Next
  BY <1>1, TipNext, CarNext, PanNext, ModalNext, TabNext, SpyNext DEF Next, WidgetInv
<1>2. CASE UNCHANGED vars
  <2>1. widget' = widget /\ kind' = kind BY <1>2 DEF vars
  <2> QED BY <2>1 DEF WidgetInv, TipInv, CarInv, PanInv, ModInv, TabInv, SpyInv
<1> QED BY <1>1, <1>2

LEMMA WidgetAlways == Spec => []WidgetInv
  BY WidgetInit, WidgetNext, PTL DEF Spec

-----------------------------------------------------------------------------
(* Theorems.                                                               *)

\* Whatever happens to a widget, its object and its elements keep their types: an index stays
\* one of an item, and the scroll spy knows as many offsets as sections
\* (bootstrap.js 280-1877).
THEOREM WidgetTypes == Spec => []TypeOK
<1>1. WidgetInv => TypeOK
  <2>1. CarInv => Car!TypeOK BY DEF CarInv, CarouselOf, Car!TypeOK
  <2>2. PanInv => Pan!TypeOK BY DEF PanInv, Panels, Pan!TypeOK
  <2>3. ModInv => Mod!TypeOK BY DEF ModInv, ModalOk, Mod!TypeOK
  <2> QED BY <2>1, <2>2, <2>3
          DEF WidgetInv, TypeOK, TipInv, Tip!TypeOK, TabInv, Tabs!TypeOK, SpyInv, Spy!TypeOK
<1> QED BY <1>1, WidgetAlways, PTL

\* However events, timers, transitions and scripts meet, a tip that waits for nothing is in the
\* document and visible exactly if the pointer is in (bootstrap.js 1185-1213, 1343-1345).
THEOREM TipAlwaysFollows == Spec => []TipFollows
<1>1. WidgetInv => TipFollows
  BY DEF WidgetInv, TipInv, TipWaits, TipFollows, Tip!TipFollows, Tip!State
<1> QED BY <1>1, WidgetAlways, PTL

\* A carousel of any number of items never leaks a timer, whatever hovers, clicks and slides
\* (bootstrap.js 327-369).
THEOREM TimerNeverLeaks == Spec => []OneTimer
<1>1. WidgetInv => OneTimer
  BY DEF WidgetInv, CarInv, CarouselOf, Timed, OneTimer, Car!OneTimer
<1> QED BY <1>1, WidgetAlways, PTL

\* It shows one item, and at rest the indicator that is lit is that item's
\* (bootstrap.js 371-417).
THEOREM ItemAndIndicator == Spec => []OneItem
<1>1. WidgetInv => OneItem BY CarItem DEF WidgetInv, OneItem
<1> QED BY <1>1, WidgetAlways, PTL

\* An accordion of any number of panels at rest has none in the middle, shows at most one,
\* and its togglers tell which (bootstrap.js 549-556, 669-672).
THEOREM AccordionClosesOthers == Spec => []Accordion
<1>1. WidgetInv => Accordion BY PanAccordion DEF WidgetInv, Accordion
<1> QED BY <1>1, WidgetAlways, PTL

\* At rest a dialog, the body, the backdrop and the handlers agree on whether it is shown
\* (bootstrap.js 878-1025, 1075-1077).
THEOREM ModalStaysWhole == Spec => []ModalWhole
<1>1. WidgetInv => ModalWhole BY ModalRest DEF WidgetInv, ModalWhole
<1> QED BY <1>1, WidgetAlways, PTL

\* Of any number of panes the chosen toggler's, and only that, is shown when nothing fades
\* (bootstrap.js 1797-1840).
THEOREM PaneShown == Spec => []PaneOfTab
<1>1. WidgetInv => PaneOfTab BY TabPane DEF WidgetInv, PaneOfTab
<1> QED BY <1>1, WidgetAlways, PTL

\* Whatever was marked before, scrolling marks the last section that begins above the
\* position, or the last one at the end of the page (bootstrap.js 1628-1678).
THEOREM SpyMarksRight == Spec => []SpyRight
<1>1. WidgetInv => SpyRight BY SpyMarks DEF WidgetInv, SpyRight
<1> QED BY <1>1, WidgetAlways, PTL
=============================================================================
