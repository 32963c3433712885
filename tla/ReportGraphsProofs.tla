-------------------------- MODULE ReportGraphsProofs --------------------------
(***************************************************************************)
(* Proofs about the graphs of the report, for any pages, series, filters   *)
(* and selections.                                                         *)
(*                                                                         *)
(* No callback relates two panels, so the invariant is one of a panel with *)
(* its graph: its Shape, which each half of a callback keeps, and that it  *)
(* is Told, which holds again when the callback has returned.              *)
(***************************************************************************)
EXTENDS ReportGraphs, FiniteSetTheorems, TLAPS

Kind == [atReady : BOOLEAN, times : BOOLEAN, zooms : BOOLEAN,
         discriminates : BOOLEAN, ignoresFilter : BOOLEAN, saysEmpty : BOOLEAN]

GraphNames == {
    "ResponseTimePercentiles", "ResponseTimeDistribution",
    "SyntheticResponseTimeDistribution", "ActiveThreadsOverTime", "TimeVsThreads",
    "BytesThroughputOverTime", "ResponseTimesOverTime", "LatenciesOverTime",
    "ConnectTimeOverTime", "ResponseTimePercentilesOverTime", "ResponseTimeVsRequest",
    "LatenciesVsRequest", "HitsPerSecond", "CodesPerSecond", "TransactionsPerSecond",
    "TotalTPS"}

\* Only TotalTPS is reduced without looking whether something is left.
LEMMA Kinds ==
    ASSUME NEW g \in DOMAIN Graph
    PROVE  /\ Graph[g] \in Kind
           /\ Graph[g].discriminates => Graph[g].saysEmpty \/ g = "TotalTPS"
<1>1. g \in GraphNames
  BY DEF Graph, GraphNames
<1>2. /\ Plain \in Kind /\ ~Plain.discriminates
      /\ Sampled \in Kind /\ Sampled.saysEmpty
      /\ Timed \in Kind /\ ~Timed.discriminates
      /\ TimedSampled \in Kind /\ TimedSampled.saysEmpty
  BY DEF Plain, Sampled, Timed, TimedSampled, Kind
<1>3. /\ Graph.ResponseTimePercentiles = ResponseTimePercentiles
      /\ Graph.ResponseTimeDistribution = ResponseTimeDistribution
      /\ Graph.SyntheticResponseTimeDistribution = SyntheticResponseTimeDistribution
      /\ Graph.ActiveThreadsOverTime = ActiveThreadsOverTime
      /\ Graph.TimeVsThreads = TimeVsThreads
      /\ Graph.BytesThroughputOverTime = BytesThroughputOverTime
      /\ Graph.ResponseTimesOverTime = ResponseTimesOverTime
      /\ Graph.LatenciesOverTime = LatenciesOverTime
      /\ Graph.ConnectTimeOverTime = ConnectTimeOverTime
      /\ Graph.ResponseTimePercentilesOverTime = ResponseTimePercentilesOverTime
      /\ Graph.ResponseTimeVsRequest = ResponseTimeVsRequest
      /\ Graph.LatenciesVsRequest = LatenciesVsRequest
      /\ Graph.HitsPerSecond = HitsPerSecond
      /\ Graph.CodesPerSecond = CodesPerSecond
      /\ Graph.TransactionsPerSecond = TransactionsPerSecond
      /\ Graph.TotalTPS = TotalTPS
  BY DEF Graph
<1>4. /\ ResponseTimePercentiles \in Kind /\ ResponseTimePercentiles.saysEmpty
      /\ ResponseTimeDistribution \in Kind /\ ResponseTimeDistribution.saysEmpty
      /\ ResponseTimesOverTime \in Kind /\ ResponseTimesOverTime.saysEmpty
  BY <1>2 DEF Kind, ResponseTimePercentiles, ResponseTimeDistribution, ResponseTimesOverTime
<1>5. /\ SyntheticResponseTimeDistribution \in Kind
      /\ ~SyntheticResponseTimeDistribution.discriminates
      /\ HitsPerSecond \in Kind /\ ~HitsPerSecond.discriminates
      /\ TotalTPS \in Kind
  BY <1>2 DEF Kind, SyntheticResponseTimeDistribution, HitsPerSecond, TotalTPS
<1>6. /\ TimeVsThreads = Sampled /\ LatenciesOverTime = TimedSampled
      /\ ConnectTimeOverTime = TimedSampled /\ TransactionsPerSecond = TimedSampled
      /\ ActiveThreadsOverTime = Timed /\ BytesThroughputOverTime = Timed
      /\ ResponseTimePercentilesOverTime = Timed /\ CodesPerSecond = Timed
      /\ ResponseTimeVsRequest = Plain /\ LatenciesVsRequest = Plain
  BY DEF TimeVsThreads, LatenciesOverTime, ConnectTimeOverTime, TransactionsPerSecond,
         ActiveThreadsOverTime, BytesThroughputOverTime, ResponseTimePercentilesOverTime,
         CodesPerSecond, ResponseTimeVsRequest, LatenciesVsRequest
<1> QED BY <1>1, <1>2, <1>3, <1>4, <1>5, <1>6 DEF GraphNames

LEMMA KeptFacts ==
    ASSUME NEW g \in DOMAIN Graph, seriesFilter \subseteq Labels
    PROVE  /\ Kept(g) \subseteq Labels
           /\ Kept(g) = {} => Graph[g].saysEmpty \/ g = "TotalTPS"
<1>1. Graph[g].discriminates \/ Kept(g) = Labels
  BY DEF Kept
<1>2. Kept(g) \subseteq Labels
  BY ReportAssumption DEF Kept
<1> QED BY <1>1, <1>2, Kinds, ReportAssumption

LEMMA BoxesType ==
    ASSUME NEW p \in Panel
    PROVE  Boxes(p) \in [Labels -> Nat]
<1>1. ASSUME NEW s \in Labels
      PROVE  Cardinality({c \in 1..Len(p.legend) : s \in p.legend[c].checked}) \in Nat
  <2>1. Len(p.legend) \in Nat
    BY DEF Panel
  <2>2. IsFiniteSet(1..Len(p.legend))
    BY <2>1, FS_Interval
  <2>3. IsFiniteSet({c \in 1..Len(p.legend) : s \in p.legend[c].checked})
    BY <2>2, FS_Subset
  <2> QED BY <2>3, FS_CardinalityType
<1> QED BY <1>1 DEF Boxes

\* The plot depends on the boxes that are checked, not on the colours.
LEMMA BoxesSame ==
    ASSUME NEW p, NEW q, Len(q.legend) = Len(p.legend),
           \A c \in 1..Len(p.legend) : q.legend[c].checked = p.legend[c].checked
    PROVE  Boxes(q) = Boxes(p)
<1>1. ASSUME NEW s \in Labels
      PROVE  {c \in 1..Len(q.legend) : s \in q.legend[c].checked}
                = {c \in 1..Len(p.legend) : s \in p.legend[c].checked}
  OBVIOUS
<1> QED BY <1>1 DEF Boxes
-----------------------------------------------------------------------------
(***************************************************************************)
(* The functions of the page, by what they do to the fields of a panel.    *)
(***************************************************************************)
Filter == seriesFilter \subseteq Labels /\ showControllersOnly \in BOOLEAN

Nothing(g) == Graph[g].saysEmpty /\ Kept(g) = {}

Frame(p, q) == q \in Panel /\ q.phase = p.phase /\ q.chevron = p.chevron /\ q.mishap = p.mishap

LEMMA CreateGraphIs ==
    ASSUME NEW p \in Panel, NEW q, q = CreateGraph(p)
    PROVE  /\ Frame(p, q) /\ q.legend = p.legend /\ q.emptied = p.emptied
           /\ q.shifted = p.shifted /\ q.bound = p.bound
           /\ Displayed(p) => /\ q.drawn /\ q.plotted = Boxes(q)
                              /\ q.zoom = Full /\ q.selected = Full
           /\ ~Displayed(p) => q = p
<1>1. CASE Displayed(p)
  <2>1. q = [p EXCEPT !.drawn = TRUE, !.plotted = Boxes(p), !.zoom = Full, !.selected = Full]
    BY <1>1 DEF CreateGraph
  <2>2. Boxes(p) \in [Labels -> Nat]
    BY BoxesType
  <2>3. /\ q \in Panel /\ q.legend = p.legend /\ q.emptied = p.emptied
        /\ q.shifted = p.shifted /\ q.bound = p.bound /\ q.phase = p.phase
        /\ q.chevron = p.chevron /\ q.mishap = p.mishap
        /\ q.drawn /\ q.plotted = Boxes(p) /\ q.zoom = Full /\ q.selected = Full
    BY ZenonT(30), <2>1, <2>2 DEF Panel
  <2>4. Boxes(q) = Boxes(p)
    BY <2>3, BoxesSame
  <2> QED BY <1>1, <2>3, <2>4 DEF Frame
<1>2. CASE ~Displayed(p)
  BY <1>2 DEF CreateGraph, Frame
<1> QED BY <1>1, <1>2

LEMMA FixTimeStampsIs ==
    ASSUME NEW g \in DOMAIN Graph, NEW p \in Panel, NEW fix \in BOOLEAN,
           NEW q, q = FixTimeStamps(g, p, fix)
    PROVE  /\ Frame(p, q) /\ q.legend = p.legend /\ q.emptied = p.emptied
           /\ q.drawn = p.drawn /\ q.plotted = p.plotted /\ q.bound = p.bound
           /\ q.zoom = p.zoom /\ q.selected = p.selected
           /\ q.shifted = p.shifted + (IF fix /\ Graph[g].times THEN 1 ELSE 0)
<1>1. CASE fix /\ Graph[g].times
  <2>1. q = [p EXCEPT !.shifted = p.shifted + 1] /\ p.shifted + 1 \in Nat
    BY <1>1 DEF FixTimeStamps, Panel
  <2> QED BY <1>1, <2>1 DEF Panel, Frame
<1>2. CASE ~(fix /\ Graph[g].times)
  <2>1. q = p /\ p.shifted + 0 = p.shifted
    BY <1>2 DEF FixTimeStamps, Panel
  <2> QED BY <1>2, <2>1 DEF Frame
<1> QED BY <1>1, <1>2

LEMMA SetEmptyGraphIs ==
    ASSUME NEW p \in Panel, NEW q, q = SetEmptyGraph(p)
    PROVE  /\ Frame(p, q) /\ q.legend = <<>> /\ q.emptied /\ ~q.drawn
           /\ q.shifted = p.shifted /\ q.bound = p.bound
           /\ q.zoom = Full /\ q.selected = Full
<1> DEFINE none == [s \in Labels |-> 0]
<1>1. none \in [Labels -> Nat]
  OBVIOUS
<1> HIDE DEF none
<1>2. q = [p EXCEPT !.emptied = TRUE, !.drawn = FALSE, !.legend = <<>>,
                    !.plotted = none, !.zoom = Full, !.selected = Full]
  BY DEF SetEmptyGraph, none
<1>3. <<>> \in Seq(Legend)
  OBVIOUS
<1> QED BY ZenonT(30), <1>1, <1>2, <1>3 DEF Panel, Frame

LEMMA CreateLegendIs ==
    ASSUME Filter, NEW g \in DOMAIN Graph, NEW p \in Panel, NEW q, q = CreateLegend(g, p)
    PROVE  /\ Frame(p, q) /\ q.emptied = p.emptied
           /\ q.legend = Append(p.legend, [checked |-> Kept(g), grey |-> {}])
           /\ q.drawn = p.drawn /\ q.plotted = p.plotted /\ q.bound = p.bound
           /\ q.zoom = p.zoom /\ q.selected = p.selected /\ q.shifted = p.shifted
<1>1. [checked |-> Kept(g), grey |-> {}] \in Legend
  BY KeptFacts DEF Legend, Filter
<1>2. Append(p.legend, [checked |-> Kept(g), grey |-> {}]) \in Seq(Legend)
  BY <1>1 DEF Panel
<1> HIDE DEF Legend
<1> QED BY <1>2 DEF CreateLegend, Panel, Frame

Refreshed(g, p, q, shift) ==
    /\ Frame(p, q)
    /\ Nothing(g) => /\ q.emptied /\ ~q.drawn /\ q.legend = <<>>
                     /\ q.shifted = p.shifted /\ q.zoom = q.selected
    /\ ~Nothing(g) =>
          /\ q.emptied = p.emptied
          /\ q.shifted = p.shifted + shift
          /\ p.drawn => q.drawn /\ q.legend = p.legend /\ q.bound = p.bound
          /\ ~p.drawn =>
                /\ q.legend = Append(p.legend, [checked |-> Kept(g), grey |-> {}])
                /\ Displayed(p) => q.drawn /\ (Graph[g].zooms => q.bound)
                /\ ~Displayed(p) => ~q.drawn /\ q.bound = p.bound
          /\ Displayed(p) => q.plotted = Boxes(q) /\ q.zoom = q.selected
          /\ ~Displayed(p) => q.plotted = p.plotted /\ q.zoom = p.zoom
                                                    /\ q.selected = p.selected

LEMMA RefreshIs ==
    ASSUME Filter, NEW g \in DOMAIN Graph, NEW p \in Panel, NEW fix \in BOOLEAN,
           NEW q, q = Refresh(g, p, fix)
    PROVE  Refreshed(g, p, q, IF fix /\ Graph[g].times THEN 1 ELSE 0)
<1> USE DEF Refreshed
<1>1. CASE Nothing(g)
  BY <1>1, SetEmptyGraphIs DEF Refresh, Nothing
<1>2. CASE ~Nothing(g)
  <2> DEFINE f == FixTimeStamps(g, p, fix)
             l == CreateLegend(g, f)
             c == CreateGraph(l)
  <2>1. /\ Frame(p, f) /\ f \in Panel /\ f.legend = p.legend /\ f.emptied = p.emptied
        /\ f.drawn = p.drawn /\ f.plotted = p.plotted /\ f.bound = p.bound
        /\ f.zoom = p.zoom /\ f.selected = p.selected
        /\ f.shifted = p.shifted + (IF fix /\ Graph[g].times THEN 1 ELSE 0)
        /\ Displayed(f) = Displayed(p)
    BY FixTimeStampsIs DEF Frame, Displayed
  <2>2. q = IF p.drawn THEN CreateGraph(f) ELSE FirstDraw(g, f)
    BY <1>2 DEF Refresh, Nothing
  <2> HIDE DEF f
  <2>3. CASE p.drawn
    <3>1. q = CreateGraph(f)
      BY <2>2, <2>3
    <3>2. /\ Frame(f, q) /\ q.legend = f.legend /\ q.emptied = f.emptied
          /\ q.shifted = f.shifted /\ q.bound = f.bound
          /\ Displayed(f) => /\ q.drawn /\ q.plotted = Boxes(q)
                             /\ q.zoom = Full /\ q.selected = Full
          /\ ~Displayed(f) => q = f
      BY <2>1, <3>1, CreateGraphIs
    <3> QED BY <1>2, <2>1, <2>3, <3>2 DEF Frame
  <2>4. CASE ~p.drawn
    <3>1. /\ Frame(f, l) /\ l \in Panel /\ l.emptied = f.emptied
          /\ l.legend = Append(f.legend, [checked |-> Kept(g), grey |-> {}])
          /\ l.drawn = f.drawn /\ l.plotted = f.plotted /\ l.bound = f.bound
          /\ l.zoom = f.zoom /\ l.selected = f.selected /\ l.shifted = f.shifted
          /\ Displayed(l) = Displayed(f)
      BY <2>1, CreateLegendIs DEF Frame, Displayed
    <3>2. q = IF Displayed(f) THEN [c EXCEPT !.bound = @ \/ Graph[g].zooms] ELSE c
      BY <2>2, <2>4 DEF FirstDraw
    <3> HIDE DEF l
    <3>3. /\ Frame(l, c) /\ c \in Panel /\ c.legend = l.legend /\ c.emptied = l.emptied
          /\ c.shifted = l.shifted /\ c.bound = l.bound
          /\ Displayed(l) => /\ c.drawn /\ c.plotted = Boxes(c)
                             /\ c.zoom = Full /\ c.selected = Full
          /\ ~Displayed(l) => c = l
      BY <3>1, CreateGraphIs DEF Frame
    <3> HIDE DEF c
    <3>4. CASE Displayed(p)
      <4>1. (c.bound \/ Graph[g].zooms) \in BOOLEAN
        BY <3>3, Kinds DEF Panel, Kind
      <4>2. /\ q \in Panel /\ q.phase = c.phase /\ q.chevron = c.chevron
            /\ q.mishap = c.mishap /\ q.legend = c.legend /\ q.drawn = c.drawn
            /\ q.emptied = c.emptied /\ q.plotted = c.plotted /\ q.shifted = c.shifted
            /\ q.zoom = c.zoom /\ q.selected = c.selected
            /\ Graph[g].zooms => q.bound
        <5>1. q = [c EXCEPT !.bound = c.bound \/ Graph[g].zooms]
          BY <2>1, <3>2, <3>4
        <5> QED BY <3>3, <4>1, <5>1 DEF Panel
      <4>3. Boxes(q) = Boxes(c)
        BY <4>2, BoxesSame
      <4> QED BY <1>2, <2>1, <2>4, <3>1, <3>3, <3>4, <4>2, <4>3 DEF Frame
    <3>5. CASE ~Displayed(p)
      BY <1>2, <2>1, <2>4, <3>1, <3>2, <3>3, <3>5 DEF Frame
    <3> QED BY <3>4, <3>5
  <2> QED BY <2>3, <2>4
<1> QED BY <1>1, <1>2
-----------------------------------------------------------------------------
(***************************************************************************)
(* The invariant of a panel p with the graph g.                            *)
(***************************************************************************)
Shape(g, p) ==
    /\ p \in Panel
    /\ p.shifted = 0 \/ (p.shifted = 1 /\ p.drawn)
    /\ p.drawn /\ Graph[g].times /\ "undrawn" \notin p.mishap => p.shifted = 1
    /\ Nothing(g) => ~p.drawn /\ p.legend = <<>>
    /\ "undrawn" \notin p.mishap => Len(p.legend) <= 1 /\ (~p.drawn => p.legend = <<>>)
    /\ \A c \in 1..Len(p.legend) : p.legend[c].checked \subseteq Kept(g)
    /\ p.bound => p.zoom = p.selected
    /\ p.drawn /\ Graph[g].zooms /\ "undrawn" \notin p.mishap => p.bound

Told(g, p) ==
    /\ p.drawn /\ "hidden" \notin p.mishap => p.plotted = Boxes(p)
    /\ p.mishap = {} => \A c \in 1..Len(p.legend) :
                           p.legend[c].grey = Kept(g) \ p.legend[c].checked

Opened(g, p) == p.phase = "open" \/ Graph[g].atReady => p.drawn \/ p.emptied

Pointed(p) ==
    /\ p.phase = "open" => p.chevron = {"up"}
    /\ p.phase \in {"closed", "opening"} => "down" \in p.chevron
    /\ p.phase = "closing" => "up" \in p.chevron

Good(g, p) == Shape(g, p) /\ Told(g, p) /\ Opened(g, p) /\ Pointed(p)

RInv == TypeOK /\ \A g \in Panels : Good(g, panel[g])

\* What only opens, closes or turns a chevron leaves the graph as it is.
SameBody(p, q) ==
    /\ q.legend = p.legend /\ q.drawn = p.drawn /\ q.plotted = p.plotted
    /\ q.shifted = p.shifted /\ q.bound = p.bound /\ q.zoom = p.zoom
    /\ q.selected = p.selected /\ q.mishap = p.mishap /\ q.emptied = p.emptied

LEMMA SameGraph ==
    ASSUME NEW g, NEW p, NEW q \in Panel, Shape(g, p), Told(g, p), SameBody(p, q)
    PROVE  /\ Shape(g, q) /\ Told(g, q)
           /\ q.drawn \/ q.emptied <=> p.drawn \/ p.emptied
<1>1. Boxes(q) = Boxes(p)
  BY BoxesSame DEF SameBody
<1> QED BY <1>1 DEF Shape, Told, SameBody

LEMMA PhaseIs ==
    ASSUME NEW p \in Panel, NEW phase \in {"closed", "opening", "open", "closing"},
           NEW q, q = [p EXCEPT !.phase = phase]
    PROVE  q \in Panel /\ q.phase = phase /\ q.chevron = p.chevron /\ SameBody(p, q)
BY DEF Panel, SameBody

LEMMA ChevronIs ==
    ASSUME NEW p \in Panel, NEW chevron \in (SUBSET {"up", "down"}) \ {{}},
           NEW q, q = [p EXCEPT !.chevron = chevron]
    PROVE  q \in Panel /\ q.phase = p.phase /\ q.chevron = chevron /\ SameBody(p, q)
BY DEF Panel, SameBody

Turns(p, q, phase, from, to) == q = Turned([p EXCEPT !.phase = phase], from, to)

LEMMA TurnedIs ==
    ASSUME NEW p \in Panel, NEW from \in {"up", "down"}, NEW to \in {"up", "down"},
           from # to, from \in p.chevron,
           NEW phase \in {"closed", "opening", "open", "closing"},
           NEW q, Turns(p, q, phase, from, to)
    PROVE  q \in Panel /\ q.phase = phase /\ q.chevron = {to} /\ SameBody(p, q)
<1> DEFINE r == [p EXCEPT !.phase = phase]
           chevron == (p.chevron \ {from}) \cup {to}
<1>1. r \in Panel /\ r.phase = phase /\ r.chevron = p.chevron /\ SameBody(p, r)
  BY PhaseIs
<1>2. q = Turned(r, from, to)
  BY DEF Turns
<1> HIDE DEF r
<1>3. chevron = {to} /\ chevron \in (SUBSET {"up", "down"}) \ {{}}
  BY DEF Panel
<1>4. q = [r EXCEPT !.chevron = chevron]
  BY <1>1, <1>2 DEF Turned
<1> HIDE DEF chevron
<1>5. q \in Panel /\ q.phase = r.phase /\ q.chevron = chevron /\ SameBody(r, q)
  BY <1>1, <1>3, <1>4, ChevronIs
<1> QED BY <1>1, <1>3, <1>5 DEF SameBody

LEMMA ShowGood ==
    ASSUME NEW g, NEW p, Good(g, p), p.phase = "closed",
           NEW q, q = [p EXCEPT !.phase = "opening"]
    PROVE  Good(g, q)
<1>1. q \in Panel /\ q.phase = "opening" /\ q.chevron = p.chevron /\ SameBody(p, q)
  BY PhaseIs DEF Good, Shape
<1>2. Shape(g, q) /\ Told(g, q) /\ (q.drawn \/ q.emptied <=> p.drawn \/ p.emptied)
  BY <1>1, SameGraph DEF Good
<1> QED BY <1>1, <1>2 DEF Good, Opened, Pointed

LEMMA HideGood ==
    ASSUME NEW g, NEW p, Good(g, p), p.phase = "open",
           NEW q, q = [p EXCEPT !.phase = "closing"]
    PROVE  Good(g, q)
<1>1. q \in Panel /\ q.phase = "closing" /\ q.chevron = p.chevron /\ SameBody(p, q)
  BY PhaseIs DEF Good, Shape
<1>2. Shape(g, q) /\ Told(g, q) /\ (q.drawn \/ q.emptied <=> p.drawn \/ p.emptied)
  BY <1>1, SameGraph DEF Good
<1> QED BY <1>1, <1>2 DEF Good, Opened, Pointed

LEMMA HiddenGood ==
    ASSUME NEW g, NEW p, Good(g, p), p.phase = "closing",
           NEW q, Turns(p, q, "closed", "up", "down")
    PROVE  Good(g, q)
<1>1. p \in Panel /\ "up" \in p.chevron
  BY DEF Good, Shape, Pointed
<1>2. q \in Panel /\ q.phase = "closed" /\ q.chevron = {"down"} /\ SameBody(p, q)
  BY <1>1, TurnedIs
<1>3. Shape(g, q) /\ Told(g, q) /\ (q.drawn \/ q.emptied <=> p.drawn \/ p.emptied)
  BY <1>2, SameGraph DEF Good
<1> QED BY <1>2, <1>3 DEF Good, Opened, Pointed

\* The refresh of a graph that has none yet, and that of a menu entry.
DrawFirst(g, p) == Refresh(g, p, TRUE)
DrawAgain(g, p) == Refresh(g, p, FALSE)

LEMMA DrawFirstIs ==
    ASSUME Filter, NEW g \in DOMAIN Graph, NEW p \in Panel, NEW q, q = DrawFirst(g, p)
    PROVE  Refreshed(g, p, q, IF Graph[g].times THEN 1 ELSE 0)
<1>1. Refreshed(g, p, q, IF TRUE /\ Graph[g].times THEN 1 ELSE 0)
  BY RefreshIs DEF DrawFirst
<1>2. (IF TRUE /\ Graph[g].times THEN 1 ELSE 0) = (IF Graph[g].times THEN 1 ELSE 0)
  OBVIOUS
<1> QED BY <1>1, <1>2

LEMMA DrawAgainIs ==
    ASSUME Filter, NEW g \in DOMAIN Graph, NEW p \in Panel, NEW q, q = DrawAgain(g, p)
    PROVE  Refreshed(g, p, q, 0)
<1>1. Refreshed(g, p, q, IF FALSE /\ Graph[g].times THEN 1 ELSE 0)
  BY RefreshIs DEF DrawAgain
<1>2. (IF FALSE /\ Graph[g].times THEN 1 ELSE 0) = 0
  OBVIOUS
<1> QED BY <1>1, <1>2

\* The first time a graph is drawn, in a panel that is displayed.
LEMMA FirstRefreshGood ==
    ASSUME Filter, NEW g \in DOMAIN Graph, NEW p, Shape(g, p), Displayed(p), ~p.drawn,
           NEW q, q = DrawFirst(g, p)
    PROVE  /\ Shape(g, q) /\ Told(g, q) /\ (q.drawn \/ q.emptied)
           /\ q.phase = p.phase /\ q.chevron = p.chevron
<1>1. p \in Panel /\ p.shifted = 0
  BY DEF Shape
<1> DEFINE shift == IF Graph[g].times THEN 1 ELSE 0
<1>2. Refreshed(g, p, q, shift)
  BY <1>1, DrawFirstIs
<1>3. shift = IF Graph[g].times THEN 1 ELSE 0
  OBVIOUS
<1> HIDE DEF shift
<1>4. Frame(p, q)
  BY <1>2 DEF Refreshed
<1>5. CASE Nothing(g)
  <2>1. q.emptied /\ ~q.drawn /\ q.legend = <<>> /\ q.shifted = 0 /\ q.zoom = q.selected
    BY <1>1, <1>2, <1>5 DEF Refreshed
  <2>2. Len(q.legend) = 0
    BY <2>1
  <2> QED BY <1>4, <1>5, <2>1, <2>2 DEF Shape, Told, Frame
<1>6. CASE ~Nothing(g)
  <2>1. /\ q.shifted = p.shifted + shift
        /\ q.legend = Append(p.legend, [checked |-> Kept(g), grey |-> {}])
        /\ q.drawn /\ (Graph[g].zooms => q.bound)
        /\ q.plotted = Boxes(q) /\ q.zoom = q.selected
    BY <1>2, <1>6 DEF Refreshed
  <2>2. /\ Len(q.legend) = Len(p.legend) + 1 /\ Len(p.legend) \in Nat
        /\ \A c \in 1..Len(p.legend) : q.legend[c] = p.legend[c]
        /\ q.legend[Len(p.legend) + 1] = [checked |-> Kept(g), grey |-> {}]
    <3>1. p.legend \in Seq(Legend)
      BY <1>1 DEF Panel
    <3> QED BY <2>1, <3>1
  <2>3. \A c \in 1..Len(q.legend) : q.legend[c].checked \subseteq Kept(g)
    <3>1. \A c \in 1..Len(p.legend) : p.legend[c].checked \subseteq Kept(g)
      BY DEF Shape
    <3> QED BY <2>2, <3>1
  <2>4. "undrawn" \notin p.mishap =>
           /\ Len(q.legend) = 1 /\ q.legend[1] = [checked |-> Kept(g), grey |-> {}]
    <3>1. "undrawn" \notin p.mishap => Len(p.legend) = 0
      BY DEF Shape
    <3> QED BY <2>2, <3>1
  <2>5. q.shifted = IF Graph[g].times THEN 1 ELSE 0
    BY <1>1, <1>3, <2>1
  <2>6. q \in Panel /\ q.mishap = p.mishap
    BY <1>4 DEF Frame
  <2>7. Shape(g, q)
    BY <1>6, <2>1, <2>3, <2>4, <2>5, <2>6 DEF Shape
  <2>8. Told(g, q)
    BY <2>1, <2>4, <2>6 DEF Told
  <2> QED BY <1>4, <2>1, <2>7, <2>8 DEF Frame
<1> QED BY <1>5, <1>6

LEMMA ShownGood ==
    ASSUME Filter, NEW g \in DOMAIN Graph, NEW p, Good(g, p), p.phase = "opening",
           NEW r, Turns(p, r, "open", "down", "up"),
           NEW q, q = IF ~Graph[g].atReady /\ ~r.drawn THEN DrawFirst(g, r) ELSE r
    PROVE  Good(g, q)
<1>1. p \in Panel /\ "down" \in p.chevron
  BY DEF Good, Shape, Pointed
<1>2. r \in Panel /\ r.phase = "open" /\ r.chevron = {"up"} /\ SameBody(p, r)
  BY <1>1, TurnedIs
<1>3. Shape(g, r) /\ Told(g, r) /\ (r.drawn \/ r.emptied <=> p.drawn \/ p.emptied)
  BY <1>2, SameGraph DEF Good
<1>4. CASE ~Graph[g].atReady /\ ~r.drawn
  <2>1. q = DrawFirst(g, r) /\ Displayed(r)
    BY <1>2, <1>4 DEF Displayed
  <2>2. /\ Shape(g, q) /\ Told(g, q) /\ (q.drawn \/ q.emptied)
        /\ q.phase = r.phase /\ q.chevron = r.chevron
    BY <1>3, <1>4, <2>1, FirstRefreshGood
  <2> QED BY <1>2, <2>2 DEF Good, Opened, Pointed
<1>5. CASE Graph[g].atReady \/ r.drawn
  <2>1. q = r
    BY <1>5
  <2>2. r.drawn \/ r.emptied
    BY <1>3, <1>5 DEF Good, Opened
  <2> QED BY <1>2, <1>3, <2>1, <2>2 DEF Good, Opened, Pointed
<1> QED BY <1>4, <1>5

\* The resize icon.
LEMMA ResizeGood ==
    ASSUME NEW g, NEW p, Good(g, p),
           NEW q, q = [p EXCEPT !.phase = IF @ = "open" THEN "closed" ELSE @,
                                !.chevron = IF "up" \in @ THEN @ \cup {"down"} ELSE @]
    PROVE  Good(g, q)
<1> DEFINE phase == IF p.phase = "open" THEN "closed" ELSE p.phase
           chevron == IF "up" \in p.chevron THEN p.chevron \cup {"down"} ELSE p.chevron
<1>1. /\ p \in Panel /\ phase \in {"closed", "opening", "open", "closing"}
      /\ chevron \in (SUBSET {"up", "down"}) \ {{}}
  BY DEF Good, Shape, Panel
<1>2. q = [p EXCEPT !.phase = phase, !.chevron = chevron]
  BY <1>1 DEF Panel
<1>3. phase # "open" /\ (phase \in {"closed", "opening"} => "down" \in chevron)
      /\ (phase = "closing" => "up" \in chevron)
  BY DEF Good, Pointed
<1> HIDE DEF phase, chevron
<1>4. q \in Panel /\ q.phase = phase /\ q.chevron = chevron /\ SameBody(p, q)
  BY ZenonT(30), <1>1, <1>2 DEF Panel, SameBody
<1>5. Shape(g, q) /\ Told(g, q) /\ (q.drawn \/ q.emptied <=> p.drawn \/ p.emptied)
  BY <1>4, SameGraph DEF Good
<1> QED BY <1>3, <1>4, <1>5 DEF Good, Opened, Pointed

\* Zoom and selection are all that a selection changes.
Zoomed(p, q) ==
    /\ q \in Panel /\ q.phase = p.phase /\ q.chevron = p.chevron
    /\ q.legend = p.legend /\ q.drawn = p.drawn /\ q.plotted = p.plotted
    /\ q.shifted = p.shifted /\ q.bound = p.bound
    /\ q.mishap = p.mishap /\ q.emptied = p.emptied

LEMMA ZoomedGood ==
    ASSUME NEW g, NEW p, Good(g, p), NEW q, Zoomed(p, q),
           q.bound => q.zoom = q.selected
    PROVE  Good(g, q)
<1>1. Boxes(q) = Boxes(p)
  BY BoxesSame DEF Zoomed
<1>2. Shape(g, q)
  BY DEF Good, Shape, Zoomed
<1>3. Told(g, q)
  BY <1>1 DEF Good, Told, Zoomed
<1> QED BY <1>2, <1>3 DEF Good, Opened, Pointed, Zoomed

Selects(p, q, z, r) == q = [p EXCEPT !.zoom = z, !.selected = r]

LEMMA SelectIs ==
    ASSUME NEW p \in Panel, NEW r \in Ranges \cup {Full}, NEW z \in Ranges \cup {Full},
           NEW q, Selects(p, q, z, r)
    PROVE  Zoomed(p, q) /\ q.zoom = z /\ q.selected = r
BY DEF Panel, Zoomed, Selects

LEMMA PlotSelectedIs ==
    ASSUME NEW p \in Panel, NEW r \in Ranges, NEW q, q = PlotSelected(p, r)
    PROVE  Zoomed(p, q) /\ (q.bound => p.bound /\ q.zoom = r /\ q.selected = r)
<1>1. CASE p.bound
  <2>1. Selects(p, q, r, r)
    BY <1>1 DEF PlotSelected, Selects
  <2> QED BY <1>1, <2>1, SelectIs
<1>2. CASE ~p.bound
  <2>1. q = p
    BY <1>2 DEF PlotSelected
  <2> QED BY <1>2, <2>1 DEF Zoomed
<1> QED BY <1>1, <1>2

LEMMA SelectGraphGood ==
    ASSUME NEW g, NEW p, Good(g, p), NEW r \in Ranges, NEW q, q = PlotSelected(p, r)
    PROVE  Good(g, q)
<1>1. p \in Panel
  BY DEF Good, Shape
<1>2. Zoomed(p, q) /\ (q.bound => q.zoom = q.selected)
  BY <1>1, PlotSelectedIs
<1> QED BY <1>2, ZoomedGood

LEMMA SelectOverviewGood ==
    ASSUME NEW g, NEW p, Good(g, p), NEW r \in Ranges,
           NEW s, s = [p EXCEPT !.selected = r], NEW q, q = PlotSelected(s, r)
    PROVE  Good(g, q)
<1>1. p \in Panel
  BY DEF Good, Shape
<1>2. Selects(p, s, p.zoom, r) /\ p.zoom \in Ranges \cup {Full}
  BY <1>1 DEF Panel, Selects
<1>3. Zoomed(p, s)
  BY <1>1, <1>2, SelectIs
<1>4. Zoomed(s, q) /\ (q.bound => q.zoom = q.selected)
  <2>1. s \in Panel
    BY <1>3 DEF Zoomed
  <2> QED BY <2>1, PlotSelectedIs
<1>5. Zoomed(p, q)
  BY <1>3, <1>4 DEF Zoomed
<1> QED BY <1>4, <1>5, ZoomedGood

LEMMA UnselectGood ==
    ASSUME NEW g, NEW p, Good(g, p), NEW z \in Ranges \cup {Full}, p.bound => z = Full,
           NEW q, Selects(p, q, z, Full)
    PROVE  Good(g, q)
<1>1. p \in Panel
  BY DEF Good, Shape
<1>2. Zoomed(p, q) /\ q.zoom = z /\ q.selected = Full
  BY <1>1, SelectIs
<1>3. q.bound => q.zoom = q.selected
  BY <1>2 DEF Zoomed
<1> QED BY <1>2, <1>3, ZoomedGood

(***************************************************************************)
(* A click on a label draws the graph, if it had been drawn or not.        *)
(***************************************************************************)
Greyed(legend, c, s) == [legend EXCEPT ![c].grey = Flip(@, s)]
Boxed(legend, s) == [legend EXCEPT ![1].checked = Flip(@, s)]
Coloured(legend, c, s) ==
    IF (Len(legend) - c) % 2 = 0 THEN Greyed(legend, c, s) ELSE legend

LEMMA FlipType ==
    ASSUME NEW S \in SUBSET Labels, NEW s \in Labels
    PROVE  Flip(S, s) \in SUBSET Labels
BY DEF Flip

LEMMA GreyedIs ==
    ASSUME NEW legend \in Seq(Legend), NEW c \in 1..Len(legend), NEW s \in Labels,
           NEW l, l = Greyed(legend, c, s)
    PROVE  /\ l \in Seq(Legend) /\ Len(l) = Len(legend)
           /\ \A i \in 1..Len(legend) : l[i].checked = legend[i].checked
           /\ l[c].grey = Flip(legend[c].grey, s)
<1> DEFINE box == [legend[c] EXCEPT !.grey = Flip(legend[c].grey, s)]
<1>1. legend[c] \in Legend
  OBVIOUS
<1>2. /\ box \in Legend /\ box.checked = legend[c].checked
      /\ box.grey = Flip(legend[c].grey, s)
  BY <1>1, FlipType DEF Legend
<1>3. l = [legend EXCEPT ![c] = box]
  BY DEF Greyed
<1> HIDE DEF box, Legend
<1>4. /\ l \in Seq(Legend) /\ Len(l) = Len(legend) /\ l[c] = box
      /\ \A i \in 1..Len(legend) : i # c => l[i] = legend[i]
  BY <1>2, <1>3
<1> QED BY <1>2, <1>4

LEMMA BoxedIs ==
    ASSUME NEW legend \in Seq(Legend), 1 \in 1..Len(legend), NEW s \in Labels,
           NEW l, l = Boxed(legend, s)
    PROVE  /\ l \in Seq(Legend) /\ Len(l) = Len(legend)
           /\ \A i \in 1..Len(legend) : l[i].grey = legend[i].grey
           /\ \A i \in 1..Len(legend) : i # 1 => l[i].checked = legend[i].checked
           /\ l[1].checked = Flip(legend[1].checked, s)
<1> DEFINE box == [legend[1] EXCEPT !.checked = Flip(legend[1].checked, s)]
<1>1. legend[1] \in Legend
  OBVIOUS
<1>2. /\ box \in Legend /\ box.grey = legend[1].grey
      /\ box.checked = Flip(legend[1].checked, s)
  BY <1>1, FlipType DEF Legend
<1>3. l = [legend EXCEPT ![1] = box]
  BY DEF Boxed
<1> HIDE DEF box, Legend
<1>4. /\ l \in Seq(Legend) /\ Len(l) = Len(legend) /\ l[1] = box
      /\ \A i \in 1..Len(legend) : i # 1 => l[i] = legend[i]
  BY <1>2, <1>3
<1> QED BY <1>2, <1>4

LEMMA ColouredIs ==
    ASSUME NEW legend \in Seq(Legend), NEW c \in 1..Len(legend), NEW s \in Labels,
           NEW l, l = Coloured(legend, c, s)
    PROVE  /\ l \in Seq(Legend) /\ Len(l) = Len(legend)
           /\ \A i \in 1..Len(legend) : l[i].checked = legend[i].checked
           /\ Len(legend) = 1 => l[1].grey = Flip(legend[1].grey, s)
<1>1. CASE (Len(legend) - c) % 2 = 0
  <2>1. l = Greyed(legend, c, s)
    BY <1>1 DEF Coloured
  <2>2. /\ l \in Seq(Legend) /\ Len(l) = Len(legend)
        /\ \A i \in 1..Len(legend) : l[i].checked = legend[i].checked
        /\ l[c].grey = Flip(legend[c].grey, s)
    BY <2>1, GreyedIs
  <2>3. Len(legend) = 1 => c = 1
    OBVIOUS
  <2> QED BY <2>2, <2>3
<1>2. CASE (Len(legend) - c) % 2 # 0
  <2>1. l = legend
    BY <1>2 DEF Coloured
  <2>2. ASSUME Len(legend) = 1
        PROVE  FALSE
    <3>1. c = 1
      BY <2>2
    <3>2. (1 - 1) % 2 = 0
      OBVIOUS
    <3> QED BY <1>2, <2>2, <3>1, <3>2
  <2> QED BY <2>1, <2>2
<1> QED BY <1>1, <1>2

Clicked(legend, c, s) == Boxed(Coloured(legend, c, s), s)

LEMMA ClickedIs ==
    ASSUME NEW legend \in Seq(Legend), NEW c \in 1..Len(legend), NEW s \in Labels,
           NEW l, l = Clicked(legend, c, s)
    PROVE  /\ l \in Seq(Legend) /\ Len(l) = Len(legend) /\ Len(l) # 0
           /\ \A i \in 1..Len(legend) : i # 1 => l[i].checked = legend[i].checked
           /\ l[1].checked = Flip(legend[1].checked, s)
           /\ Len(legend) = 1 => l[1].grey = Flip(legend[1].grey, s)
<1> DEFINE k == Coloured(legend, c, s)
<1>1. /\ k \in Seq(Legend) /\ Len(k) = Len(legend)
      /\ \A i \in 1..Len(legend) : k[i].checked = legend[i].checked
      /\ Len(legend) = 1 => k[1].grey = Flip(legend[1].grey, s)
  BY ColouredIs
<1>2. l = Boxed(k, s)
  BY DEF Clicked
<1> HIDE DEF k
<1>3. 1 \in 1..Len(k) /\ Len(legend) # 0
  BY <1>1
<1>4. /\ l \in Seq(Legend) /\ Len(l) = Len(k)
      /\ \A i \in 1..Len(k) : l[i].grey = k[i].grey
      /\ \A i \in 1..Len(k) : i # 1 => l[i].checked = k[i].checked
      /\ l[1].checked = Flip(k[1].checked, s)
  BY <1>1, <1>2, <1>3, BoxedIs
<1> QED BY <1>1, <1>3, <1>4

Reboxed(p, l) == CreateGraph([p EXCEPT !.legend = l])

LEMMA ReboxedIs ==
    ASSUME NEW p \in Panel, Displayed(p), NEW l \in Seq(Legend),
           NEW q, q = Reboxed(p, l)
    PROVE  /\ Frame(p, q) /\ q.legend = l /\ q.emptied = p.emptied
           /\ q.shifted = p.shifted /\ q.bound = p.bound
           /\ q.drawn /\ q.plotted = Boxes(q) /\ q.zoom = q.selected
<1> DEFINE r == [p EXCEPT !.legend = l]
<1>1. /\ r \in Panel /\ r.legend = l /\ r.phase = p.phase /\ r.chevron = p.chevron
      /\ r.mishap = p.mishap /\ r.shifted = p.shifted /\ r.bound = p.bound
      /\ r.emptied = p.emptied
  BY DEF Panel
<1>2. q = CreateGraph(r)
  BY DEF Reboxed
<1> HIDE DEF r
<1>3. Displayed(r)
  BY <1>1 DEF Displayed
<1>4. /\ Frame(r, q) /\ q.legend = r.legend /\ q.emptied = r.emptied
      /\ q.shifted = r.shifted /\ q.bound = r.bound
      /\ Displayed(r) => /\ q.drawn /\ q.plotted = Boxes(q)
                         /\ q.zoom = Full /\ q.selected = Full
      /\ ~Displayed(r) => q = r
  BY <1>1, <1>2, CreateGraphIs
<1> QED BY <1>1, <1>3, <1>4 DEF Frame

LEMMA AtMostOne ==
    ASSUME NEW n \in Nat, n <= 1, n # 0
    PROVE  n = 1
OBVIOUS

LEMMA ClickGood ==
    ASSUME Filter, NEW g \in DOMAIN Graph, NEW p, Good(g, p), Displayed(p),
           NEW c \in 1..Len(p.legend), NEW s \in Kept(g),
           NEW l, l = Clicked(p.legend, c, s), NEW q, q = Reboxed(p, l)
    PROVE  Good(g, q)
<1>1. p \in Panel /\ p.legend \in Seq(Legend) /\ Len(p.legend) \in Nat
  BY DEF Good, Shape, Panel
<1>2. s \in Labels
  BY KeptFacts DEF Filter
<1>3. /\ l \in Seq(Legend) /\ Len(l) = Len(p.legend) /\ Len(l) # 0
      /\ \A i \in 1..Len(p.legend) : i # 1 => l[i].checked = p.legend[i].checked
      /\ l[1].checked = Flip(p.legend[1].checked, s)
      /\ Len(p.legend) = 1 => l[1].grey = Flip(p.legend[1].grey, s)
  BY <1>1, <1>2, ClickedIs
<1>4. /\ Frame(p, q) /\ q.legend = l /\ q.emptied = p.emptied
      /\ q.shifted = p.shifted /\ q.bound = p.bound
      /\ q.drawn /\ q.plotted = Boxes(q) /\ q.zoom = q.selected
  BY <1>1, <1>3, ReboxedIs
<1>5. /\ ~Nothing(g)
      /\ ~p.drawn => "undrawn" \in p.mishap
      /\ \A i \in 1..Len(p.legend) : p.legend[i].checked \subseteq Kept(g)
      /\ p.shifted = 0 \/ p.shifted = 1
      /\ p.drawn /\ Graph[g].times /\ "undrawn" \notin p.mishap => p.shifted = 1
      /\ p.drawn /\ Graph[g].zooms /\ "undrawn" \notin p.mishap => p.bound
      /\ "undrawn" \notin p.mishap => Len(p.legend) <= 1
  <2>1. p.legend # <<>>
    BY <1>1, <1>3
  <2>2. ~Nothing(g)
    BY DEF Nothing
  <2> QED BY <2>1, <2>2 DEF Good, Shape
<1>6. \A i \in 1..Len(l) : l[i].checked \subseteq Kept(g)
  <2>1. Flip(p.legend[1].checked, s) \subseteq Kept(g)
    BY <1>1, <1>3, <1>5 DEF Flip
  <2> QED BY <1>3, <1>5, <2>1
<1>7. Shape(g, q)
  BY <1>3, <1>4, <1>5, <1>6 DEF Shape, Frame
<1>8. ASSUME p.mishap = {}
      PROVE  \A i \in 1..Len(l) : l[i].grey = Kept(g) \ l[i].checked
  <2>1. Len(p.legend) = 1
    <3>1. Len(p.legend) <= 1
      BY <1>5, <1>8
    <3>2. Len(p.legend) # 0
      BY <1>3
    <3>3. Len(p.legend) \in Nat
      BY <1>1
    <3> QED BY <3>1, <3>2, <3>3, AtMostOne
  <2>2. p.legend[1].grey = Kept(g) \ p.legend[1].checked
    BY <1>8, <2>1 DEF Good, Told
  <2>3. p.legend[1].checked \subseteq Kept(g)
    BY <1>5, <2>1
  <2>4. Flip(p.legend[1].grey, s) = Kept(g) \ Flip(p.legend[1].checked, s)
    BY <2>2, <2>3 DEF Flip
  <2> QED BY <1>3, <2>1, <2>4
<1>9. Told(g, q)
  BY <1>4, <1>8 DEF Told, Frame
<1> QED BY <1>4, <1>7, <1>9 DEF Good, Opened, Pointed, Frame

(***************************************************************************)
(* A menu entry sets the boxes, draws, paints the labels and leaves its    *)
(* mark on a panel that is hidden or has no plot.                          *)
(***************************************************************************)
SameButLegend(p, q) ==
    /\ Frame(p, q) /\ Len(q.legend) = Len(p.legend)
    /\ q.drawn = p.drawn /\ q.plotted = p.plotted /\ q.shifted = p.shifted
    /\ q.bound = p.bound /\ q.zoom = p.zoom /\ q.selected = p.selected
    /\ q.emptied = p.emptied

Wanted(g, checked) == IF checked THEN Kept(g) ELSE {}

LEMMA NewLegend ==
    ASSUME NEW p \in Panel, NEW l \in Seq(Legend), Len(l) = Len(p.legend),
           NEW q, q = [p EXCEPT !.legend = l]
    PROVE  SameButLegend(p, q) /\ q.legend = l
<1> HIDE DEF Legend
<1> QED BY DEF SameButLegend, Frame, Panel

LEMMA TickedIs ==
    ASSUME Filter, NEW g \in DOMAIN Graph, NEW p \in Panel, NEW checked \in BOOLEAN,
           NEW q, q = Ticked(g, p, checked)
    PROVE  /\ SameButLegend(p, q)
           /\ \A c \in 1..Len(p.legend) : q.legend[c].checked = Wanted(g, checked)
           /\ \A c \in 1..Len(p.legend) : q.legend[c].grey = p.legend[c].grey
<1> DEFINE W == Wanted(g, checked)
           l == [c \in 1..Len(p.legend) |-> [p.legend[c] EXCEPT !.checked = W]]
<1>1. W \in SUBSET Labels
  BY KeptFacts DEF Wanted, Filter
<1>2. q = [p EXCEPT !.legend = l]
  BY DEF Ticked, Wanted, Panel
<1>3. p.legend \in Seq(Legend) /\ Len(p.legend) \in Nat
  BY DEF Panel
<1> HIDE DEF W
<1>4. ASSUME NEW c \in 1..Len(p.legend)
      PROVE  l[c] \in Legend /\ l[c].checked = W /\ l[c].grey = p.legend[c].grey
  <2>1. p.legend[c] \in Legend
    BY <1>3
  <2>2. l[c] = [p.legend[c] EXCEPT !.checked = W]
    OBVIOUS
  <2> HIDE DEF l
  <2> QED BY <1>1, <2>1, <2>2 DEF Legend
<1>5. l \in Seq(Legend) /\ Len(l) = Len(p.legend)
  <2> HIDE DEF Legend
  <2>1. l \in [1..Len(p.legend) -> Legend]
    BY <1>4
  <2> HIDE DEF l
  <2> QED BY <1>3, <2>1
<1> HIDE DEF l
<1>6. SameButLegend(p, q) /\ q.legend = l
  BY <1>2, <1>5, NewLegend
<1> QED BY <1>4, <1>6 DEF W

LEMMA PaintedIs ==
    ASSUME Filter, NEW g \in DOMAIN Graph, NEW p \in Panel, NEW checked \in BOOLEAN,
           NEW q, q = Painted(g, p, checked)
    PROVE  /\ SameButLegend(p, q)
           /\ \A c \in 1..Len(p.legend) : q.legend[c].checked = p.legend[c].checked
           /\ \A c \in 1..Len(p.legend) : q.legend[c].grey = Kept(g) \ Wanted(g, checked)
<1> DEFINE W == IF checked THEN {} ELSE Kept(g)
           l == [c \in 1..Len(p.legend) |-> [p.legend[c] EXCEPT !.grey = W]]
<1>1. W \in SUBSET Labels
  BY KeptFacts DEF Filter
<1>2. q = [p EXCEPT !.legend = l]
  BY DEF Painted, Panel
<1>3. p.legend \in Seq(Legend) /\ Len(p.legend) \in Nat
  BY DEF Panel
<1>4. W = Kept(g) \ Wanted(g, checked)
  BY DEF Wanted
<1> HIDE DEF W
<1>5. ASSUME NEW c \in 1..Len(p.legend)
      PROVE  l[c] \in Legend /\ l[c].grey = W /\ l[c].checked = p.legend[c].checked
  <2>1. p.legend[c] \in Legend
    BY <1>3
  <2>2. l[c] = [p.legend[c] EXCEPT !.grey = W]
    OBVIOUS
  <2> HIDE DEF l
  <2> QED BY <1>1, <2>1, <2>2 DEF Legend
<1>6. l \in Seq(Legend) /\ Len(l) = Len(p.legend)
  <2> HIDE DEF Legend
  <2>1. l \in [1..Len(p.legend) -> Legend]
    BY <1>5
  <2> HIDE DEF l
  <2> QED BY <1>3, <2>1
<1> HIDE DEF l
<1>7. SameButLegend(p, q) /\ q.legend = l
  BY <1>2, <1>6, NewLegend
<1> QED BY <1>4, <1>5, <1>7

Marked(p, slip) == [p EXCEPT !.mishap = @ \cup slip]

LEMMA MarkedIs ==
    ASSUME NEW p \in Panel, NEW slip \in SUBSET {"hidden", "undrawn"},
           NEW q, q = Marked(p, slip)
    PROVE  /\ q \in Panel /\ q.mishap = p.mishap \cup slip
           /\ q.phase = p.phase /\ q.chevron = p.chevron /\ q.legend = p.legend
           /\ q.drawn = p.drawn /\ q.plotted = p.plotted /\ q.shifted = p.shifted
           /\ q.bound = p.bound /\ q.zoom = p.zoom /\ q.selected = p.selected
           /\ q.emptied = p.emptied
<1>1. (p.mishap \cup slip) \in SUBSET {"hidden", "undrawn"}
  BY DEF Panel
<1>2. q = [p EXCEPT !.mishap = p.mishap \cup slip]
  BY DEF Marked, Panel
<1> QED BY SMTT(30), <1>1, <1>2 DEF Panel

LEMMA AgainGood ==
    ASSUME Filter, NEW g \in DOMAIN Graph, NEW p, Good(g, p), NEW checked \in BOOLEAN,
           NEW t, t = Ticked(g, p, checked), NEW q, q = DrawAgain(g, t),
           NEW r, r = IF Displayed(p) THEN Painted(g, q, checked) ELSE q,
           NEW slip \in SUBSET {"hidden", "undrawn"},
           ~Displayed(p) => "hidden" \in slip, ~p.drawn => "undrawn" \in slip,
           NEW n, n = Marked(r, slip)
    PROVE  Good(g, n)
<1> DEFINE W == Wanted(g, checked)
<1>1. p \in Panel /\ Len(p.legend) \in Nat
  BY DEF Good, Shape, Panel
<1>2. /\ SameButLegend(p, t) /\ t \in Panel
      /\ \A c \in 1..Len(p.legend) : t.legend[c].checked = W
  <2>1. /\ SameButLegend(p, t)
        /\ \A c \in 1..Len(p.legend) : t.legend[c].checked = Wanted(g, checked)
        /\ \A c \in 1..Len(p.legend) : t.legend[c].grey = p.legend[c].grey
    BY <1>1, TickedIs
  <2>2. t \in Panel
    BY <2>1 DEF SameButLegend, Frame
  <2> QED BY <2>1, <2>2
<1>3. Refreshed(g, t, q, 0) /\ Frame(t, q) /\ q \in Panel
  BY <1>2, DrawAgainIs DEF Refreshed, Frame
<1>4. W \subseteq Kept(g) /\ W \in SUBSET Labels
  BY KeptFacts DEF Wanted, Filter
<1> HIDE DEF W
<1>5. /\ Displayed(p) => /\ SameButLegend(q, r)
                         /\ \A c \in 1..Len(q.legend) :
                               r.legend[c].checked = q.legend[c].checked
                         /\ \A c \in 1..Len(q.legend) : r.legend[c].grey = Kept(g) \ W
      /\ ~Displayed(p) => r = q
  <2>1. CASE Displayed(p)
    <3>1. r = Painted(g, q, checked)
      BY <2>1
    <3>2. /\ SameButLegend(q, r)
          /\ \A c \in 1..Len(q.legend) : r.legend[c].checked = q.legend[c].checked
          /\ \A c \in 1..Len(q.legend) : r.legend[c].grey = Kept(g) \ Wanted(g, checked)
      BY <1>3, <3>1, PaintedIs
    <3> QED BY <2>1, <3>2 DEF W
  <2>2. CASE ~Displayed(p)
    BY <2>2
  <2> QED BY <2>1, <2>2
<1>6. /\ n \in Panel /\ n.phase = p.phase /\ n.chevron = p.chevron
      /\ n.mishap = p.mishap \cup slip /\ n.emptied = q.emptied
      /\ n.drawn = q.drawn /\ n.plotted = q.plotted /\ n.shifted = q.shifted
      /\ n.bound = q.bound /\ n.zoom = q.zoom /\ n.selected = q.selected
      /\ Len(n.legend) = Len(q.legend)
      /\ \A c \in 1..Len(q.legend) : n.legend[c].checked = q.legend[c].checked
      /\ Displayed(p) =>
            \A c \in 1..Len(q.legend) : n.legend[c].grey = Kept(g) \ W
  <2>1. r \in Panel
    BY <1>3, <1>5 DEF SameButLegend, Frame
  <2>2. /\ n \in Panel /\ n.mishap = r.mishap \cup slip
        /\ n.phase = r.phase /\ n.chevron = r.chevron /\ n.legend = r.legend
        /\ n.drawn = r.drawn /\ n.plotted = r.plotted /\ n.shifted = r.shifted
        /\ n.bound = r.bound /\ n.zoom = r.zoom /\ n.selected = r.selected
        /\ n.emptied = r.emptied
    BY <2>1, MarkedIs
  <2>3. q.phase = p.phase /\ q.chevron = p.chevron /\ q.mishap = p.mishap
    BY <1>2, <1>3 DEF SameButLegend, Frame
  <2>4. CASE Displayed(p)
    <3>1. /\ r.phase = q.phase /\ r.chevron = q.chevron /\ r.mishap = q.mishap
          /\ Len(r.legend) = Len(q.legend)
          /\ r.drawn = q.drawn /\ r.plotted = q.plotted /\ r.shifted = q.shifted
          /\ r.bound = q.bound /\ r.zoom = q.zoom /\ r.selected = q.selected
          /\ r.emptied = q.emptied
      BY <1>5, <2>4 DEF SameButLegend, Frame
    <3> QED BY <1>5, <2>2, <2>3, <2>4, <3>1
  <2>5. CASE ~Displayed(p)
    BY <1>5, <2>2, <2>3, <2>5
  <2> QED BY <2>4, <2>5
<1>7. Boxes(n) = Boxes(q)
  BY <1>6, BoxesSame
<1>8. Displayed(t) = Displayed(p) /\ t.drawn = p.drawn /\ t.shifted = p.shifted
      /\ t.bound = p.bound /\ t.emptied = p.emptied /\ t.zoom = p.zoom
      /\ t.selected = p.selected /\ t.plotted = p.plotted /\ Len(t.legend) = Len(p.legend)
  BY <1>2 DEF SameButLegend, Frame, Displayed
<1>9. /\ p.bound => p.zoom = p.selected
      /\ p.shifted = 0 \/ (p.shifted = 1 /\ p.drawn)
      /\ p.drawn /\ Graph[g].times /\ "undrawn" \notin p.mishap => p.shifted = 1
      /\ p.drawn /\ Graph[g].zooms /\ "undrawn" \notin p.mishap => p.bound
      /\ "undrawn" \notin p.mishap => Len(p.legend) <= 1
      /\ Nothing(g) => ~p.drawn
  BY DEF Good, Shape
<1>10. p.phase = "open" \/ Graph[g].atReady => p.drawn \/ p.emptied
  BY DEF Good, Opened
<1>11. Pointed(n)
  BY <1>6 DEF Good, Pointed
<1>12. CASE Nothing(g)
  <2>1. q.emptied /\ ~q.drawn /\ q.legend = <<>> /\ q.shifted = 0 /\ q.zoom = q.selected
    BY <1>3, <1>8, <1>9, <1>12 DEF Refreshed
  <2>2. Len(n.legend) = 0
    BY <1>6, <2>1
  <2>3. n.legend = <<>>
    BY <1>6, <2>2 DEF Panel
  <2>4. Shape(g, n)
    BY <1>6, <2>1, <2>2, <2>3 DEF Shape
  <2>5. Told(g, n)
    BY <1>6, <2>1, <2>2 DEF Told
  <2>6. Opened(g, n)
    BY <1>6, <2>1 DEF Opened
  <2> QED BY <1>11, <2>4, <2>5, <2>6 DEF Good
<1>13. CASE ~Nothing(g) /\ p.drawn
  <2>1. /\ q.drawn /\ q.legend = t.legend /\ q.shifted = p.shifted
        /\ q.bound = p.bound /\ q.emptied = p.emptied
        /\ q.bound => q.zoom = q.selected
        /\ Displayed(p) => q.plotted = Boxes(q)
    <3>1. p.shifted + 0 = p.shifted
      BY <1>9
    <3> QED BY <1>3, <1>8, <1>9, <1>13, <3>1 DEF Refreshed
  <2>2. /\ Len(n.legend) = Len(p.legend)
        /\ \A c \in 1..Len(p.legend) : n.legend[c].checked = W
    BY <1>2, <1>6, <1>8, <2>1
  <2>3. Shape(g, n)
    <3>1. "undrawn" \notin n.mishap => "undrawn" \notin p.mishap
      BY <1>6
    <3>2. /\ n \in Panel /\ n.drawn /\ n.shifted = p.shifted /\ n.bound = p.bound
          /\ n.bound => n.zoom = n.selected
      BY <1>6, <2>1
    <3>3. \A c \in 1..Len(n.legend) : n.legend[c].checked \subseteq Kept(g)
      BY <1>4, <2>2
    <3>4. "undrawn" \notin n.mishap => Len(n.legend) <= 1
      BY <1>9, <2>2, <3>1
    <3>5. n.shifted = 0 \/ n.shifted = 1
      BY <1>9, <3>2
    <3>6. Graph[g].times /\ "undrawn" \notin n.mishap => n.shifted = 1
      BY <1>9, <1>13, <3>1, <3>2
    <3>7. Graph[g].zooms /\ "undrawn" \notin n.mishap => n.bound
      BY <1>9, <1>13, <3>1, <3>2
    <3> QED BY <1>13, <3>2, <3>3, <3>4, <3>5, <3>6, <3>7 DEF Shape
  <2>4. Told(g, n)
    <3>1. "hidden" \notin n.mishap => Displayed(p)
      BY <1>6
    <3>2. n.mishap = {} => Displayed(p)
      BY <3>1
    <3> QED BY <1>6, <1>7, <1>8, <2>1, <2>2, <3>1, <3>2 DEF Told
  <2>5. Opened(g, n)
    BY <1>6, <2>1 DEF Opened
  <2> QED BY <1>11, <2>3, <2>4, <2>5 DEF Good
<1>14. CASE ~Nothing(g) /\ ~p.drawn
  <2>1. /\ q.legend = Append(t.legend, [checked |-> Kept(g), grey |-> {}])
        /\ q.shifted = 0 /\ q.emptied = p.emptied
        /\ q.bound => q.zoom = q.selected
        /\ Displayed(p) => q.drawn /\ q.plotted = Boxes(q)
        /\ ~Displayed(p) => ~q.drawn
    <3>1. p.shifted + 0 = 0
      BY <1>9, <1>14
    <3> QED BY <1>3, <1>8, <1>9, <1>14, <3>1 DEF Refreshed
  <2>2. "undrawn" \in n.mishap
    BY <1>6, <1>14
  <2>3. \A c \in 1..Len(q.legend) : q.legend[c].checked \subseteq Kept(g)
    <3>1. t.legend \in Seq(Legend)
      BY <1>2 DEF Panel
    <3>2. /\ Len(q.legend) = Len(t.legend) + 1 /\ Len(t.legend) \in Nat
          /\ \A c \in 1..Len(t.legend) : q.legend[c] = t.legend[c]
          /\ q.legend[Len(t.legend) + 1] = [checked |-> Kept(g), grey |-> {}]
      BY <2>1, <3>1
    <3> QED BY SMTT(30), <1>2, <1>4, <1>8, <3>2
  <2>4. Shape(g, n)
    BY <1>6, <1>14, <2>1, <2>2, <2>3 DEF Shape
  <2>5. Told(g, n)
    <3>1. n.drawn => n.plotted = Boxes(n)
      BY <1>6, <1>7, <2>1
    <3> QED BY <2>2, <3>1 DEF Told
  <2>6. Opened(g, n)
    <3>1. ~Displayed(p) => p.phase # "open"
      BY DEF Displayed
    <3> QED BY <1>6, <1>10, <1>14, <2>1, <3>1 DEF Opened
  <2> QED BY <1>11, <2>4, <2>5, <2>6 DEF Good
<1> QED BY <1>12, <1>13, <1>14
-----------------------------------------------------------------------------
(***************************************************************************)
(* The page when it is ready, and every step.                              *)
(***************************************************************************)
LEMMA UntouchedIs ==
    ASSUME NEW g \in DOMAIN Graph, NEW p, p = Untouched(g)
    PROVE  /\ Shape(g, p) /\ Told(g, p) /\ ~p.drawn
           /\ Graph[g].atReady => p.phase = "open" /\ p.chevron = {"up"}
           /\ ~Graph[g].atReady => p.phase = "closed" /\ p.chevron = {"down"}
<1> DEFINE none == [s \in Labels |-> 0]
           phase == IF Graph[g].atReady THEN "open" ELSE "closed"
           chevron == IF Graph[g].atReady THEN {"up"} ELSE {"down"}
<1>1. none \in [Labels -> Nat]
  OBVIOUS
<1>2. /\ phase \in {"closed", "opening", "open", "closing"}
      /\ chevron \in (SUBSET {"up", "down"}) \ {{}}
      /\ Graph[g].atReady => phase = "open" /\ chevron = {"up"}
      /\ ~Graph[g].atReady => phase = "closed" /\ chevron = {"down"}
  OBVIOUS
<1>3. p = [phase |-> phase, chevron |-> chevron,
           legend |-> <<>>, drawn |-> FALSE, emptied |-> FALSE,
           plotted |-> none, shifted |-> 0, bound |-> FALSE,
           zoom |-> Full, selected |-> Full, mishap |-> {}]
  BY DEF Untouched
<1> HIDE DEF none, phase, chevron
<1>4. <<>> \in Seq(Legend) /\ Len(<<>>) = 0
  OBVIOUS
<1>5. /\ p \in Panel /\ p.phase = phase /\ p.chevron = chevron /\ p.legend = <<>>
      /\ ~p.drawn /\ p.shifted = 0 /\ p.zoom = p.selected /\ p.mishap = {}
  <2> HIDE DEF Legend
  <2> QED BY <1>1, <1>2, <1>3, <1>4 DEF Panel
<1>6. Shape(g, p) /\ Told(g, p)
  BY <1>4, <1>5 DEF Shape, Told
<1> QED BY <1>2, <1>5, <1>6

LEMMA UntouchedGood ==
    ASSUME Filter, NEW g \in DOMAIN Graph, NEW p, p = Untouched(g),
           NEW q, q = IF Graph[g].atReady THEN DrawFirst(g, p) ELSE p
    PROVE  Good(g, q)
<1>1. /\ Shape(g, p) /\ Told(g, p) /\ ~p.drawn
      /\ Graph[g].atReady => p.phase = "open" /\ p.chevron = {"up"}
      /\ ~Graph[g].atReady => p.phase = "closed" /\ p.chevron = {"down"}
  BY UntouchedIs
<1>2. CASE Graph[g].atReady
  <2>1. q = DrawFirst(g, p) /\ Displayed(p)
    BY <1>1, <1>2 DEF Displayed
  <2>2. /\ Shape(g, q) /\ Told(g, q) /\ (q.drawn \/ q.emptied)
        /\ q.phase = p.phase /\ q.chevron = p.chevron
    BY <1>1, <2>1, FirstRefreshGood
  <2> QED BY <1>1, <1>2, <2>2 DEF Good, Opened, Pointed
<1>3. CASE ~Graph[g].atReady
  BY <1>1, <1>3 DEF Good, Opened, Pointed
<1> QED BY <1>2, <1>3

LEMMA InitRInv == Init => RInv
<1> SUFFICES ASSUME Init PROVE RInv
  OBVIOUS
<1>1. Filter
  BY DEF Init, Filter
<1>2. PICK page \in Pages :
        panel = [g \in page |-> IF Graph[g].atReady
                                THEN Refresh(g, Untouched(g), TRUE) ELSE Untouched(g)]
  BY DEF Init
<1>3. page \subseteq DOMAIN Graph
  BY ReportAssumption
<1>4. ASSUME NEW g \in page
      PROVE  Good(g, panel[g]) /\ panel[g] \in Panel
  <2>1. panel[g] = IF Graph[g].atReady THEN DrawFirst(g, Untouched(g)) ELSE Untouched(g)
    BY <1>2 DEF DrawFirst
  <2>2. Good(g, panel[g])
    BY <1>1, <1>3, <2>1, UntouchedGood
  <2> QED BY <2>2 DEF Good, Shape
<1>5. Panels = page /\ panel \in [Panels -> Panel]
  BY <1>2, <1>4 DEF Panels
<1> QED BY <1>1, <1>4, <1>5 DEF RInv, TypeOK, Filter

LEMMA ToggleGood ==
    ASSUME RInv, NEW g \in Panels, NEW checked \in BOOLEAN, ToggleAll(g, checked)
    PROVE  \E q : Good(g, q) /\ Becomes(g, q)
<1> DEFINE p == panel[g]
           t == Ticked(g, p, checked)
           q == Refresh(g, t, FALSE)
           r == IF Displayed(p) THEN Painted(g, q, checked) ELSE q
           slip == (IF Displayed(p) THEN {} ELSE {"hidden"})
                   \cup (IF p.drawn THEN {} ELSE {"undrawn"})
           n == Marked(r, slip)
<1>1. Becomes(g, n)
  BY DEF ToggleAll, Marked
<1>2. /\ slip \in SUBSET {"hidden", "undrawn"}
      /\ ~Displayed(p) => "hidden" \in slip
      /\ ~p.drawn => "undrawn" \in slip
  OBVIOUS
<1>3. /\ Filter /\ g \in DOMAIN Graph /\ Good(g, p)
  BY ReportAssumption DEF RInv, TypeOK, Filter
<1>4. q = DrawAgain(g, t)
  BY DEF DrawAgain
<1> HIDE DEF q, slip
<1>5. Good(g, n)
  BY <1>2, <1>3, <1>4, AgainGood
<1> QED BY <1>1, <1>5

LEMMA ShowStep ==
    ASSUME RInv, NEW g \in Panels, Show(g)
    PROVE  \E q : Good(g, q) /\ Becomes(g, q)
BY ShowGood DEF Show, RInv

LEMMA HideStep ==
    ASSUME RInv, NEW g \in Panels, Hide(g)
    PROVE  \E q : Good(g, q) /\ Becomes(g, q)
BY HideGood DEF Hide, RInv

LEMMA HiddenStep ==
    ASSUME RInv, NEW g \in Panels, Hidden(g)
    PROVE  \E q : Good(g, q) /\ Becomes(g, q)
<1> DEFINE q == Turned([panel[g] EXCEPT !.phase = "closed"], "up", "down")
<1>1. Becomes(g, q) /\ panel[g].phase = "closing" /\ Turns(panel[g], q, "closed", "up", "down")
  BY DEF Hidden, Turns
<1> HIDE DEF q
<1>2. Good(g, q)
  BY <1>1, HiddenGood DEF RInv
<1> QED BY <1>1, <1>2

LEMMA ShownStep ==
    ASSUME RInv, NEW g \in Panels, Shown(g)
    PROVE  \E q : Good(g, q) /\ Becomes(g, q)
<1> DEFINE r == Turned([panel[g] EXCEPT !.phase = "open"], "down", "up")
           q == IF ~Graph[g].atReady /\ ~r.drawn THEN DrawFirst(g, r) ELSE r
<1>1. Becomes(g, q) /\ panel[g].phase = "opening" /\ Turns(panel[g], r, "open", "down", "up")
  BY DEF Shown, Turns, DrawFirst
<1>2. Filter /\ g \in DOMAIN Graph /\ Good(g, panel[g])
  BY ReportAssumption DEF RInv, TypeOK, Filter
<1> HIDE DEF r
<1>3. q = IF ~Graph[g].atReady /\ ~r.drawn THEN DrawFirst(g, r) ELSE r
  OBVIOUS
<1> HIDE DEF q
<1>4. Good(g, q)
  BY <1>1, <1>2, <1>3, ShownGood
<1> QED BY <1>1, <1>4

LEMMA ClickStep ==
    ASSUME RInv, NEW g \in Panels, NEW c, NEW s, ClickLabel(g, c, s)
    PROVE  \E q : Good(g, q) /\ Becomes(g, q)
<1> DEFINE p == panel[g]
           l == Clicked(p.legend, c, s)
           q == Reboxed(p, l)
<1>1. Becomes(g, q) /\ Displayed(p) /\ c \in 1..Len(p.legend) /\ s \in Kept(g)
  BY DEF ClickLabel, Clicked, Reboxed, Boxed, Coloured, Greyed
<1>2. Filter /\ g \in DOMAIN Graph /\ Good(g, p)
  BY ReportAssumption DEF RInv, TypeOK, Filter
<1> HIDE DEF q
<1>3. q = Reboxed(p, l)
  BY DEF q
<1>4. Good(g, q)
  BY <1>1, <1>2, <1>3, ClickGood
<1> QED BY <1>1, <1>4

LEMMA SelectStep ==
    ASSUME RInv, NEW g \in Panels, NEW r \in Ranges,
           SelectInGraph(g, r) \/ SelectInOverview(g, r)
    PROVE  \E q : Good(g, q) /\ Becomes(g, q)
<1>1. Good(g, panel[g])
  BY DEF RInv
<1>2. CASE SelectInGraph(g, r)
  BY <1>1, <1>2, SelectGraphGood DEF SelectInGraph
<1>3. CASE SelectInOverview(g, r)
  BY <1>1, <1>3, SelectOverviewGood DEF SelectInOverview
<1> QED BY <1>2, <1>3

LEMMA UnselectStep ==
    ASSUME RInv, NEW g \in Panels, UnselectInOverview(g)
    PROVE  \E q : Good(g, q) /\ Becomes(g, q)
<1> DEFINE p == panel[g]
           z == IF p.bound THEN Full ELSE p.zoom
           q == [p EXCEPT !.zoom = z, !.selected = Full]
<1>1. Good(g, p) /\ p \in Panel
  BY DEF RInv, Good, Shape
<1>2. z \in Ranges \cup {Full} /\ (p.bound => z = Full)
  BY <1>1 DEF Panel
<1>3. Becomes(g, q)
  BY <1>1 DEF UnselectInOverview, Panel
<1>4. Selects(p, q, z, Full)
  BY DEF Selects
<1> HIDE DEF p, q, z
<1>5. Good(g, q)
  BY <1>1, <1>2, <1>4, UnselectGood
<1> QED BY <1>3, <1>5

\* One panel becomes another: the others stay as they were.
LEMMA BecomesRInv ==
    ASSUME RInv, NEW g \in Panels, NEW q, Good(g, q), Becomes(g, q)
    PROVE  RInv'
<1>1. /\ panel' = [panel EXCEPT ![g] = q] /\ seriesFilter' = seriesFilter
      /\ showControllersOnly' = showControllersOnly
  BY DEF Becomes
<1>2. panel \in [Panels -> Panel] /\ q \in Panel
  BY DEF RInv, TypeOK, Good, Shape
<1>3. Panels' = Panels /\ panel' \in [Panels -> Panel]
  BY <1>1, <1>2 DEF Panels
<1>4. ASSUME NEW h \in Panels
      PROVE  Good(h, panel[h])'
  <2>1. Good(h, panel'[h])
    BY <1>1, <1>2 DEF RInv
  <2>2. Kept(h)' = Kept(h) /\ Nothing(h)' = Nothing(h)
    BY <1>1 DEF Kept, Nothing
  <2> QED BY <2>1, <2>2 DEF Good, Shape, Told, Opened, Pointed, Boxes
<1> QED BY <1>1, <1>3, <1>4 DEF RInv, TypeOK

LEMMA ResizeRInv == RInv /\ PressResizeIcon => RInv'
<1> SUFFICES ASSUME RInv, PressResizeIcon
             PROVE  RInv'
  OBVIOUS
<1>1. /\ seriesFilter' = seriesFilter /\ showControllersOnly' = showControllersOnly
      /\ Panels' = Panels
      /\ \A g \in Panels : panel'[g] = [panel[g] EXCEPT
              !.phase = IF @ = "open" THEN "closed" ELSE @,
              !.chevron = IF "up" \in @ THEN @ \cup {"down"} ELSE @]
  BY DEF PressResizeIcon, Panels
<1>2. ASSUME NEW g \in Panels
      PROVE  Good(g, panel[g])' /\ panel'[g] \in Panel
  <2>1. Good(g, panel'[g])
    BY <1>1, ResizeGood DEF RInv
  <2>2. Kept(g)' = Kept(g) /\ Nothing(g)' = Nothing(g)
    BY <1>1 DEF Kept, Nothing
  <2> QED BY <2>1, <2>2 DEF Good, Shape, Told, Opened, Pointed, Boxes
<1>3. panel' \in [Panels -> Panel]
  BY <1>2 DEF PressResizeIcon
<1> QED BY <1>1, <1>2, <1>3 DEF RInv, TypeOK

LEMMA NextRInv == RInv /\ [Next]_vars => RInv'
<1> SUFFICES ASSUME RInv, [Next]_vars
             PROVE  RInv'
  OBVIOUS
<1>1. ASSUME NEW g \in Panels, Show(g)
      PROVE  RInv'
  BY <1>1, ShowStep, BecomesRInv
<1>2. ASSUME NEW g \in Panels, Shown(g)
      PROVE  RInv'
  BY <1>2, ShownStep, BecomesRInv
<1>3. ASSUME NEW g \in Panels, Hide(g)
      PROVE  RInv'
  BY <1>3, HideStep, BecomesRInv
<1>4. ASSUME NEW g \in Panels, Hidden(g)
      PROVE  RInv'
  BY <1>4, HiddenStep, BecomesRInv
<1>5. ASSUME NEW g \in Panels, NEW checked \in BOOLEAN, ToggleAll(g, checked)
      PROVE  RInv'
  BY <1>5, ToggleGood, BecomesRInv
<1>6. ASSUME NEW g \in Panels, NEW s \in Labels, NEW c \in 1..MaxCopies + 1, ClickLabel(g, c, s)
      PROVE  RInv'
  BY <1>6, ClickStep, BecomesRInv
<1>7. ASSUME NEW g \in Panels, NEW r \in Ranges,
             SelectInGraph(g, r) \/ SelectInOverview(g, r)
      PROVE  RInv'
  BY <1>7, SelectStep, BecomesRInv
<1>11. ASSUME NEW g \in Panels, UnselectInOverview(g)
       PROVE  RInv'
  BY <1>11, UnselectStep, BecomesRInv
<1>8. CASE PressResizeIcon
  BY <1>8, ResizeRInv
<1>9. CASE UNCHANGED vars
  <2>1. /\ seriesFilter' = seriesFilter /\ showControllersOnly' = showControllersOnly
        /\ panel' = panel /\ Panels' = Panels
    BY <1>9 DEF vars, Panels
  <2>2. \A g \in Panels : Good(g, panel[g])'
    <3>1. \A g \in Panels : Kept(g)' = Kept(g) /\ Nothing(g)' = Nothing(g)
      BY <2>1 DEF Kept, Nothing
    <3> QED BY <2>1, <3>1 DEF RInv, Good, Shape, Told, Opened, Pointed, Boxes
  <2> QED BY <2>1, <2>2 DEF RInv, TypeOK
<1>10. ASSUME NEW g \in Panels, CheckAll(g) \/ UncheckAll(g)
       PROVE  RInv'
  <2>1. TRUE \in BOOLEAN /\ FALSE \in BOOLEAN
    OBVIOUS
  <2> QED BY <1>5, <1>10, <2>1 DEF CheckAll, UncheckAll
<1> QED BY <1>1, <1>2, <1>3, <1>4, <1>6, <1>7, <1>8, <1>9, <1>10, <1>11 DEF Next

LEMMA Invariance == Spec => []RInv
BY InitRInv, NextRInv, PTL DEF Spec
-----------------------------------------------------------------------------
(***************************************************************************)
(* Every panel, legend and plot stays what it is declared to be, however   *)
(* the callbacks of the page follow each other.                            *)
(***************************************************************************)
THEOREM ReportTypeCorrect == Spec => []TypeOK
<1>1. RInv => TypeOK
  BY DEF RInv
<1> QED BY <1>1, Invariance, PTL

(***************************************************************************)
(* Refreshing a graph never moves its times a second time, and a graph     *)
(* that no menu entry met before it was drawn has them moved.              *)
(***************************************************************************)
THEOREM TimesAreShiftedOnce == Spec => []TimesShiftedOnce
<1>1. RInv => TimesShiftedOnce
  BY DEF RInv, Good, Shape, TimesShiftedOnce
<1> QED BY <1>1, Invariance, PTL

(***************************************************************************)
(* Plot, boxes and colours of a graph agree after every callback, unless   *)
(* a menu entry was used on a hidden panel or on a graph without a plot.   *)
(***************************************************************************)
THEOREM LegendsTellPlots == Spec => []LegendTellsPlot
<1>1. RInv => LegendTellsPlot
  <2> SUFFICES ASSUME RInv, NEW g \in Panels
               PROVE  LET p == panel[g]
                      IN /\ "undrawn" \notin p.mishap => Len(p.legend) <= 1
                         /\ p.drawn /\ "hidden" \notin p.mishap => p.plotted = Boxes(p)
                         /\ p.mishap = {} => \A c \in 1..Len(p.legend) :
                               p.legend[c].grey = Kept(g) \ p.legend[c].checked
    BY DEF LegendTellsPlot
  <2> QED BY DEF RInv, Good, Shape, Told
<1> QED BY <1>1, Invariance, PTL

(***************************************************************************)
(* A graph whose handlers are bound shows what is selected in its          *)
(* overview, and they are bound when its first refresh has drawn it.       *)
(***************************************************************************)
THEOREM ZoomsAreSelections == Spec => []ZoomIsSelection
<1>1. RInv => ZoomIsSelection
  BY DEF RInv, Good, Shape, ZoomIsSelection
<1> QED BY <1>1, Invariance, PTL

(***************************************************************************)
(* An open panel shows its graph or says that there is none, its chevron   *)
(* points the right way, and only TotalTPS is plotted without a series.    *)
(***************************************************************************)
THEOREM OpenPanelsAreDrawn == Spec => []OpenIsDrawn
<1>1. RInv => OpenIsDrawn
  <2> SUFFICES ASSUME RInv, NEW g \in Panels
               PROVE  LET p == panel[g]
                      IN /\ p.phase = "open" => (p.drawn \/ p.emptied) /\ p.chevron = {"up"}
                         /\ p.phase = "closed" => "down" \in p.chevron
                         /\ p.drawn /\ Kept(g) = {} => g = "TotalTPS"
    BY DEF OpenIsDrawn
  <2>1. Filter /\ g \in DOMAIN Graph /\ Good(g, panel[g])
    BY ReportAssumption DEF RInv, TypeOK, Filter
  <2>2. panel[g].drawn /\ Kept(g) = {} => g = "TotalTPS"
    BY <2>1, KeptFacts DEF Good, Shape, Nothing, Filter
  <2> QED BY <2>1, <2>2 DEF Good, Opened, Pointed
<1> QED BY <1>1, Invariance, PTL
=============================================================================
