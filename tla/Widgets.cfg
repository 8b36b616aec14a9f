SPECIFICATION Spec
CONSTANTS
  Sizes = {1, 3}
  Timer = {i1, i2}
  NoTimer = NoTimer
  MaxQueue = 3
  MaxTicks = 2
  Panel = {p1, p2, p3}
  Back = {b1, b2, b3}
  NoBack = NoBack
  MaxHides = 2
  Pane = {t1, t2, t3}
  MaxFading = 2
  Section = {s1, s2, s3}
  Top = {0, 1, 3}
  Position = {0, 1, 2, 3, 4}
  MaxScroll = 4
INVARIANTS TypeOK TipFollows OneTimer OneItem  ModalWhole PaneOfTab SpyRight
PROPERTY Disappears
