----------------------------- MODULE ScrollSpy -----------------------------
(***************************************************************************)
(* The scroll spy of bootstrap.js 1611-1701: it marks the section of a page *)
(* that is being read.  refresh remembers where the sections begin, each   *)
(* event of scrolling looks the position up, and the page may change its   *)
(* layout in between.                                                      *)
(***************************************************************************)
EXTENDS Integers, Sequences, FiniteSetsExt, SequencesExt

CONSTANTS
  Section,
  Top,      \* where a section may begin
  Position, \* scrollTop and the offset of the options
  MaxScroll \* from this position on the page is at its end

VARIABLE spy

\* top: the layout; order, offsets: targets and offsets as of the last refresh;
\* active: activeTarget; fresh: the layout is as it was then, and position was looked up
\* after it.
State == [top : [Section -> Top], order : [1 .. Cardinality(Section) -> Section],
          offsets : [1 .. Cardinality(Section) -> Top], position : Position,
          active : Section, fresh : BOOLEAN]
TypeOK == spy \in State

\* The sections sorted by their beginning; of equal ones any order.
Sorted(top) ==
  CHOOSE s \in [1 .. Cardinality(Section) -> Section] :
    IsInjective(s) /\ \A i, j \in DOMAIN s : i < j => top[s[i]] <= top[s[j]]

Refreshed(s) ==
  LET order == Sorted(s.top)
  IN [s EXCEPT !.order = order, !.offsets = [i \in DOMAIN order |-> s.top[order[i]]],
               !.fresh = FALSE]

\* The loop goes through all sections, upwards, and the last that is activated stays.  It
\* compares with the section that was active before, and takes an offset of 0 for none.
Anywhere(s, i) == TRUE
Below(s, i) ==
  i = Len(s.offsets) \/ s.offsets[i + 1] = 0 \/ s.position <= s.offsets[i + 1]
Hits(s) ==
  {i \in DOMAIN s.offsets :
    s.order[i] # s.active /\ s.position >= s.offsets[i] /\ Below(s, i)}

Process(s) ==
  LET hits == Hits(s) IN
  IF s.position >= MaxScroll THEN [s EXCEPT !.active = Last(s.order)]
  ELSE IF hits = {} THEN s ELSE [s EXCEPT !.active = s.order[Min(hits)]]

Init ==
  \E top \in [Section -> Top], position \in Position, active \in Section :
    spy = LET s == Refreshed([top |-> top, order |-> <<>>, offsets |-> <<>>, fresh |-> FALSE,
                              position |-> position, active |-> active])
          IN [Process(s) EXCEPT !.fresh = TRUE]

Scroll ==
  \E position \in Position :
    spy' = [Process([spy EXCEPT !.position = position]) EXCEPT
              !.fresh = spy.offsets = [i \in DOMAIN spy.order |-> spy.top[spy.order[i]]]]

Refresh == spy' = Refreshed(spy)

Layout == \E top \in [Section -> Top] : spy' = [spy EXCEPT !.top = top, !.fresh = FALSE]

Next == Scroll \/ Refresh \/ Layout
Spec == Init /\ [][Next]_spy
-----------------------------------------------------------------------------
(* Properties.                                                             *)

\* Whatever was marked before, the section with the last beginning above the position is
\* marked, or the last section at the end of the page, if the offsets are those of the
\* page.  Left out: a position before all sections, or exactly at the beginning of
\* one, and a section other than the first that begins at 0 (bootstrap.js 1659-1678).
SpyRight ==
  LET above == {t \in Section : spy.top[t] < spy.position}
      Latest(S) == {t \in S : \A u \in S : spy.top[u] <= spy.top[t]}
  IN spy.fresh /\ above # {} /\ (\A t \in Section : spy.top[t] # spy.position)
     /\ (\A t, u \in Section : spy.top[t] = 0 => t = u \/ spy.top[u] > 0)
     => spy.active \in IF spy.position >= MaxScroll THEN Latest(Section) ELSE Latest(above)
=============================================================================
