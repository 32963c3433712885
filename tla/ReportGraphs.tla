---------------------------- MODULE ReportGraphs ----------------------------
(***************************************************************************)
(* The graphs of the HTML report of a JMeter run                           *)
(* (src/engines/jmeter/html-report/content/js/graph.js and                 *)
(* dashboard-commons.js with the pages that load them): panels that open   *)
(* and close, the graph in each with its legend of check boxes, and the    *)
(* overview it is zoomed with.  All of it is callbacks: a click, the end   *)
(* of a transition of 350 ms, a selection made with the mouse.             *)
(*                                                                         *)
(* Flot, jQuery and Bootstrap are with the report.  Flot throws "Invalid   *)
(* dimensions" for a plot in a panel that is not displayed, where jQuery   *)
(* gives width 0; a panel is displayed from the start of its opening to    *)
(* the end of its closing.                                                 *)
(***************************************************************************)
EXTENDS Integers, Sequences, FiniteSets

CONSTANTS
    Pages,          \* sets of panels that are looked at on one page
    Labels,         \* the series that a graph has
    Controllers,    \* those of them that are transaction controllers
    Ranges,         \* what can be selected with the mouse
    Full,           \* the whole graph, when nothing is selected
    MaxCopies       \* bound: legends added to one panel

(***************************************************************************)
(* What tells the graphs apart: drawn when the page is ready, on a time    *)
(* axis, with an overview to zoom, reduced to controllers and to the       *)
(* filter of the report or to none, replaced by a text when nothing is     *)
(* left of it.                                                             *)
(***************************************************************************)
Plain == [atReady |-> FALSE, times |-> FALSE, zooms |-> TRUE,
          discriminates |-> FALSE, ignoresFilter |-> FALSE, saysEmpty |-> FALSE]
Sampled == [Plain EXCEPT !.discriminates = TRUE, !.saysEmpty = TRUE]
Timed == [Plain EXCEPT !.times = TRUE]
TimedSampled == [Sampled EXCEPT !.times = TRUE]

ResponseTimePercentiles == [Sampled EXCEPT !.atReady = TRUE]
ResponseTimeDistribution == [Sampled EXCEPT !.zooms = FALSE]
SyntheticResponseTimeDistribution == [Plain EXCEPT !.zooms = FALSE]
ActiveThreadsOverTime == Timed
TimeVsThreads == Sampled
BytesThroughputOverTime == Timed
ResponseTimesOverTime == [TimedSampled EXCEPT !.atReady = TRUE]
LatenciesOverTime == TimedSampled
ConnectTimeOverTime == TimedSampled
ResponseTimePercentilesOverTime == Timed
ResponseTimeVsRequest == Plain
LatenciesVsRequest == Plain
HitsPerSecond == [Timed EXCEPT !.atReady = TRUE]
CodesPerSecond == Timed
TransactionsPerSecond == TimedSampled
TotalTPS == [Timed EXCEPT !.discriminates = TRUE, !.ignoresFilter = TRUE]

Graph == [
    ResponseTimePercentiles |-> ResponseTimePercentiles,
    ResponseTimeDistribution |-> ResponseTimeDistribution,
    SyntheticResponseTimeDistribution |-> SyntheticResponseTimeDistribution,
    ActiveThreadsOverTime |-> ActiveThreadsOverTime,
    TimeVsThreads |-> TimeVsThreads,
    BytesThroughputOverTime |-> BytesThroughputOverTime,
    ResponseTimesOverTime |-> ResponseTimesOverTime,
    LatenciesOverTime |-> LatenciesOverTime,
    ConnectTimeOverTime |-> ConnectTimeOverTime,
    ResponseTimePercentilesOverTime |-> ResponseTimePercentilesOverTime,
    ResponseTimeVsRequest |-> ResponseTimeVsRequest,
    LatenciesVsRequest |-> LatenciesVsRequest,
    HitsPerSecond |-> HitsPerSecond,
    CodesPerSecond |-> CodesPerSecond,
    TransactionsPerSecond |-> TransactionsPerSecond,
    TotalTPS |-> TotalTPS]

ASSUME ReportAssumption ==
    /\ Pages \subseteq SUBSET DOMAIN Graph
    /\ Labels # {} /\ Controllers \subseteq Labels /\ IsFiniteSet(Labels)
    /\ Full \notin Ranges
    /\ MaxCopies \in Nat \ {0}

VARIABLES
    seriesFilter,           \* the labels that the filter of the report matches
    showControllersOnly,
    panel                   \* the panel of each graph of the page

vars == <<seriesFilter, showControllersOnly, panel>>

Panels == DOMAIN panel

(***************************************************************************)
(* A legend is a list of check boxes, each with a label that is black or   *)
(* grey.  createLegend adds one for each series and takes none away.       *)
(***************************************************************************)
Legend == [checked : SUBSET Labels, grey : SUBSET Labels]

Panel == [
    phase : {"closed", "opening", "open", "closing"},
    chevron : (SUBSET {"up", "down"}) \ {{}},
    legend : Seq(Legend),
    drawn : BOOLEAN,                \* isGraph: there is a plot
    emptied : BOOLEAN,              \* the body is a text
    plotted : [Labels -> Nat],      \* how often the plot has each series
    shifted : Nat,                  \* how often the times were fixed
    bound : BOOLEAN,                \* the handlers of the zoom are bound
    zoom : Ranges \cup {Full},      \* what the graph shows
    selected : Ranges \cup {Full},  \* what is selected in its overview
    mishap : SUBSET {"hidden", "undrawn"}]
    \* history: a menu entry was used while the panel was not displayed, or
    \* before its graph was drawn

Displayed(p) == p.phase # "closed"

TypeOK ==
    /\ seriesFilter \subseteq Labels /\ showControllersOnly \in BOOLEAN
    /\ Panels \in Pages /\ panel \in [Panels -> Panel]
-----------------------------------------------------------------------------
(***************************************************************************)
(* prepareSeries: the series that are left of a graph.                     *)
(***************************************************************************)
Kept(g) ==
    LET matched == IF Graph[g].discriminates /\ ~Graph[g].ignoresFilter
                   THEN seriesFilter ELSE Labels
    IN IF Graph[g].discriminates /\ showControllersOnly
       THEN matched \cap Controllers ELSE matched

CreateLegend(g, p) ==
    [p EXCEPT !.legend = Append(@, [checked |-> Kept(g), grey |-> {}])]

(***************************************************************************)
(* prepareData takes a series for every box with its name that is checked. *)
(***************************************************************************)
Boxes(p) ==
    [s \in Labels |-> Cardinality({c \in 1..Len(p.legend) : s \in p.legend[c].checked})]

(***************************************************************************)
(* createGraph plots the graph and its overview anew, which forgets zoom   *)
(* and selection, or throws.                                               *)
(***************************************************************************)
\* Mutation: the plot is drawn again with the zoom it had.
CreateGraphZoomed(p) ==
    IF Displayed(p)
    THEN [p EXCEPT !.drawn = TRUE, !.plotted = Boxes(p), !.selected = Full]
    ELSE p

CreateGraph(p) ==
    IF Displayed(p)
    THEN [p EXCEPT !.drawn = TRUE, !.plotted = Boxes(p), !.zoom = Full, !.selected = Full]
    ELSE p

(***************************************************************************)
(* The refresh function of a graph: prepare, fix the times if told to, and *)
(* draw; the first time with a legend before and, if nothing was thrown,   *)
(* the handlers of the zoom after.                                         *)
(***************************************************************************)
\* Mutation: every refresh fixes the times.
FixTimeStampsAlways(g, p, fixTimestamps) ==
    IF Graph[g].times THEN [p EXCEPT !.shifted = @ + 1] ELSE p

FixTimeStamps(g, p, fixTimestamps) ==
    IF fixTimestamps /\ Graph[g].times THEN [p EXCEPT !.shifted = @ + 1] ELSE p

SetEmptyGraph(p) ==
    [p EXCEPT !.emptied = TRUE, !.drawn = FALSE, !.legend = <<>>,
              !.plotted = [s \in Labels |-> 0], !.zoom = Full, !.selected = Full]

FirstDraw(g, p) ==
    LET q == CreateGraph(CreateLegend(g, p))
    IN IF Displayed(p) THEN [q EXCEPT !.bound = @ \/ Graph[g].zooms] ELSE q

Refresh(g, p, fixTimestamps) ==
    IF Graph[g].saysEmpty /\ Kept(g) = {} THEN SetEmptyGraph(p)
    ELSE LET q == FixTimeStamps(g, p, fixTimestamps)
         IN IF p.drawn THEN CreateGraph(q) ELSE FirstDraw(g, q)
-----------------------------------------------------------------------------
(***************************************************************************)
(* The page when it is ready: the panels that start open have been drawn   *)
(* (the two of a page that are not on it throw, which is caught).          *)
(***************************************************************************)
Untouched(g) == [
    phase |-> IF Graph[g].atReady THEN "open" ELSE "closed",
    chevron |-> IF Graph[g].atReady THEN {"up"} ELSE {"down"},
    legend |-> <<>>, drawn |-> FALSE, emptied |-> FALSE,
    plotted |-> [s \in Labels |-> 0], shifted |-> 0, bound |-> FALSE,
    zoom |-> Full, selected |-> Full, mishap |-> {}]

Init ==
    /\ seriesFilter \in SUBSET Labels /\ showControllersOnly \in BOOLEAN
    /\ \E page \in Pages :
          panel = [g \in page |-> IF Graph[g].atReady
                                  THEN Refresh(g, Untouched(g), TRUE) ELSE Untouched(g)]

Becomes(g, p) ==
    /\ panel' = [panel EXCEPT ![g] = p]
    /\ UNCHANGED <<seriesFilter, showControllersOnly>>

(***************************************************************************)
(* Opening and closing.  A panel in transition ignores the toggle.  When   *)
(* it has opened, `collapse' turns its chevron and draws a graph that has  *)
(* none yet; it has no branch for the graphs that the page drew at ready.  *)
(***************************************************************************)
Show(g) ==
    /\ panel[g].phase = "closed"
    /\ Becomes(g, [panel[g] EXCEPT !.phase = "opening"])

\* Mutation: a chevron is taken away and not replaced.
TurnedOff(p, from, to) == [p EXCEPT !.chevron = @ \ {from}]

Turned(p, from, to) ==
    [p EXCEPT !.chevron = IF from \in @ THEN (@ \ {from}) \cup {to} ELSE @]

\* Mutation: `collapse' has no branch for one of the graphs.
ShownButOne(g) ==
    /\ panel[g].phase = "opening"
    /\ LET p == Turned([panel[g] EXCEPT !.phase = "open"], "down", "up")
       IN Becomes(g, IF ~Graph[g].atReady /\ ~p.drawn /\ g # "CodesPerSecond"
                     THEN Refresh(g, p, TRUE) ELSE p)

Shown(g) ==
    /\ panel[g].phase = "opening"
    /\ LET p == Turned([panel[g] EXCEPT !.phase = "open"], "down", "up")
       IN Becomes(g, IF ~Graph[g].atReady /\ ~p.drawn THEN Refresh(g, p, TRUE) ELSE p)

Hide(g) ==
    /\ panel[g].phase = "open"
    /\ Becomes(g, [panel[g] EXCEPT !.phase = "closing"])

Hidden(g) ==
    /\ panel[g].phase = "closing"
    /\ Becomes(g, Turned([panel[g] EXCEPT !.phase = "closed"], "up", "down"))

(***************************************************************************)
(* The resize icon closes every open panel at once, without a transition,  *)
(* and adds the other chevron to those that point up.                      *)
(***************************************************************************)
PressResizeIcon ==
    /\ \E g \in Panels : panel[g].phase = "open"
    /\ panel' = [g \in Panels |->
          [panel[g] EXCEPT
              !.phase = IF @ = "open" THEN "closed" ELSE @,
              !.chevron = IF "up" \in @ THEN @ \cup {"down"} ELSE @]]
    /\ UNCHANGED <<seriesFilter, showControllersOnly>>

(***************************************************************************)
(* A click on a label of a legend.  Each createLegend has bound the        *)
(* handlers of all labels once more; the box a label is for is that of the *)
(* first legend, whose id the later ones repeat.                           *)
(***************************************************************************)
Flip(S, s) == IF s \in S THEN S \ {s} ELSE S \cup {s}

ClickLabel(g, c, s) ==
    /\ Displayed(panel[g])
    /\ c \in 1..Len(panel[g].legend) /\ s \in Kept(g)
    /\ LET legend == panel[g].legend
           coloured == IF (Len(legend) - c) % 2 = 0
                       THEN [legend EXCEPT ![c].grey = Flip(@, s)] ELSE legend
           clicked == [coloured EXCEPT ![1].checked = Flip(@, s)]
       IN Becomes(g, CreateGraph([panel[g] EXCEPT !.legend = clicked]))

(***************************************************************************)
(* checkAll and uncheckAll, "Display / Hide all samples" in the menu of a  *)
(* panel, which is there when the panel is closed too.  The labels are     *)
(* painted last, unless drawing has thrown.                                *)
(***************************************************************************)
Ticked(g, p, checked) ==
    [p EXCEPT !.legend = [c \in 1..Len(@) |->
        [@[c] EXCEPT !.checked = IF checked THEN Kept(g) ELSE {}]]]

\* Mutation: the labels are painted the other way round.
PaintedOver(g, p, checked) ==
    [p EXCEPT !.legend = [c \in 1..Len(@) |->
        [@[c] EXCEPT !.grey = IF checked THEN Kept(g) ELSE {}]]]

Painted(g, p, checked) ==
    [p EXCEPT !.legend = [c \in 1..Len(@) |->
        [@[c] EXCEPT !.grey = IF checked THEN {} ELSE Kept(g)]]]

ToggleAll(g, checked) ==
    /\ Len(panel[g].legend) < MaxCopies \/ panel[g].drawn
    /\ LET p == panel[g]
           q == Refresh(g, Ticked(g, p, checked), FALSE)
           slip == (IF Displayed(p) THEN {} ELSE {"hidden"})
                   \cup (IF p.drawn THEN {} ELSE {"undrawn"})
       IN Becomes(g, [(IF Displayed(p) THEN Painted(g, q, checked) ELSE q)
                         EXCEPT !.mishap = @ \cup slip])

CheckAll(g) == ToggleAll(g, TRUE)
UncheckAll(g) == ToggleAll(g, FALSE)

(***************************************************************************)
(* Zooming.  Flot takes a selection in a graph and in an overview that are *)
(* drawn, with handlers or without; `plotselected' of the graph shows the  *)
(* range and selects it in the overview, and a selection in the overview   *)
(* becomes one in the graph.                                               *)
(***************************************************************************)
HasOverview(g) == Displayed(panel[g]) /\ panel[g].drawn /\ Graph[g].zooms

PlotSelected(p, r) == IF p.bound THEN [p EXCEPT !.zoom = r, !.selected = r] ELSE p

SelectInGraph(g, r) ==
    /\ HasOverview(g)
    /\ Becomes(g, PlotSelected(panel[g], r))

SelectInOverview(g, r) ==
    /\ HasOverview(g)
    /\ Becomes(g, PlotSelected([panel[g] EXCEPT !.selected = r], r))

UnselectInOverview(g) ==
    /\ HasOverview(g)
    /\ Becomes(g, [panel[g] EXCEPT !.selected = Full, !.zoom = IF panel[g].bound THEN Full ELSE @])

Next ==
    \/ \E g \in Panels :
          \/ Show(g) \/ Shown(g) \/ Hide(g) \/ Hidden(g)
          \/ CheckAll(g) \/ UncheckAll(g)
          \/ \E s \in Labels : \E c \in 1..MaxCopies + 1 : ClickLabel(g, c, s)
          \/ \E r \in Ranges : SelectInGraph(g, r) \/ SelectInOverview(g, r)
          \/ UnselectInOverview(g)
    \/ PressResizeIcon

Spec == Init /\ [][Next]_vars
-----------------------------------------------------------------------------
(***************************************************************************)
(* The times of a graph are moved to the local zone exactly once before    *)
(* anybody sees them, however often it is opened, closed and redrawn.  The *)
(* menu of a panel that has not been drawn breaks it: a graph that a menu  *)
(* entry, or a legend it left behind, draws during the opening has the     *)
(* unfixed times for good, since the end of the opening finds a plot.      *)
(***************************************************************************)
TimesShiftedOnce ==
    \A g \in Panels :
        /\ panel[g].shifted <= 1
        /\ panel[g].drawn /\ Graph[g].times /\ "undrawn" \notin panel[g].mishap =>
              panel[g].shifted = 1

(***************************************************************************)
(* What a reader sees in a graph is what its legend says: one legend, the  *)
(* checked series and no other in the plot, grey the labels of the rest.   *)
(* A menu entry of a closed panel breaks it: the boxes are set and then    *)
(* drawing throws, before the plot and the labels follow; without a plot a *)
(* further legend is left behind each time.                                *)
(***************************************************************************)
LegendTellsPlot ==
    \A g \in Panels :
        LET p == panel[g]
        IN /\ "undrawn" \notin p.mishap => Len(p.legend) <= 1
           /\ p.drawn /\ "hidden" \notin p.mishap => p.plotted = Boxes(p)
           /\ p.mishap = {} => \A c \in 1..Len(p.legend) :
                                  p.legend[c].grey = Kept(g) \ p.legend[c].checked

(***************************************************************************)
(* The range a graph shows is the one selected in its overview, through    *)
(* every redraw, once the two are linked; and the refresh that draws a     *)
(* graph first links them.  A menu entry on a graph without a plot breaks  *)
(* the link: the legend it leaves behind can draw graph and overview while *)
(* the panel opens, nobody binds their handlers, and what is selected in   *)
(* the overview does not show in the graph.                                *)
(***************************************************************************)
ZoomIsSelection ==
    \A g \in Panels :
        LET p == panel[g]
        IN /\ p.bound => p.zoom = p.selected
           /\ p.drawn /\ Graph[g].zooms /\ "undrawn" \notin p.mishap => p.bound

(***************************************************************************)
(* An open panel has its graph, or says that it has none, and its chevron  *)
(* shows its state.  A plot without any series appears in no graph but     *)
(* TotalTPS, the only one that is reduced to controllers and does not look *)
(* whether something is left.                                              *)
(***************************************************************************)
OpenIsDrawn ==
    \A g \in Panels :
        LET p == panel[g]
        IN /\ p.phase = "open" => (p.drawn \/ p.emptied) /\ p.chevron = {"up"}
           /\ p.phase = "closed" => "down" \in p.chevron
           /\ p.drawn /\ Kept(g) = {} => g = "TotalTPS"

(***************************************************************************)
(* The comment of uncheckAll (dashboard-commons.js): it unchecks all boxes.*)
(* A graph that has not been drawn gets its boxes, checked, afterwards.    *)
(***************************************************************************)
HideAllHides ==
    [][\A g \in Panels : UncheckAll(g) =>
          \A c \in 1..Len(panel'[g].legend) : panel'[g].legend[c].checked = {}]_vars
=============================================================================
