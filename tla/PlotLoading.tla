----------------------------- MODULE PlotLoading ----------------------------
(***************************************************************************)
(* Plot requests (src/main.rs: load_time_series, apply_remote_plot and the *)
(* refresh list of handle_command).  A plot is computed by a thread of its *)
(* own from a copy of the view; it is refreshed only while the plot dialog *)
(* is open, and its generation survives file switches.                     *)
(***************************************************************************)
EXTENDS Naturals, Sequences, SequencesExt

CONSTANTS
    Variables,    \* variables the user may select
    MaxPlots,     \* bound: plot requests in a behaviour
    MaxSelections \* bound: variable selections and file switches

PlotIds == 1..MaxPlots

ASSUME PlotAssumption == MaxPlots \in Nat /\ MaxSelections \in Nat /\ Variables # {}

VARIABLES
    ui,          \* "drain": the UI thread empties plot_rx; "input": it awaits a command
    overlay,     \* "plot" while the plot dialog is open
    variable,    \* selected_variable
    selections,  \* selections made (bound only)
    plotGeneration,
    plot,        \* whose result plot_series holds, 0 for none
    status,      \* "loading plot data", or anything else
    current,     \* the request plot_cancelled points at
    request,     \* the generation and the variable each worker computes
    stage,       \* where each worker stands
    cancelled,   \* each worker's flag
    outcome,     \* what it found: a plot, a panic or its own cancellation
    channel      \* plot_tx/plot_rx

vars == <<ui, overlay, variable, selections, plotGeneration, plot, status, current,
          request, stage, cancelled, outcome, channel>>
viewVars == <<ui, overlay, variable, selections, plotGeneration, plot, status, current>>

NoPlot == [generation |-> 0, variable |-> 0]

Init ==
    /\ ui = "drain"
    /\ overlay = "none"
    /\ variable \in Variables
    /\ selections = 0
    /\ plotGeneration = 0
    /\ plot = 0
    /\ status = "other"
    /\ current = 0
    /\ request = [id \in PlotIds |-> NoPlot]
    /\ stage = [id \in PlotIds |-> "idle"]
    /\ cancelled = [id \in PlotIds |-> FALSE]
    /\ outcome = [id \in PlotIds |-> "none"]
    /\ channel = <<>>

(* ------------------------------ the UI thread -------------------------- *)

CancelCurrent == [id \in PlotIds |-> cancelled[id] \/ id = current]

\* The flag plot_cancelled points at after the request.
NewFlag(id) == id

\* load_time_series: the request is numbered by the generation it draws.
LoadTimeSeries ==
    LET id == plotGeneration + 1
    IN  /\ plotGeneration < MaxPlots
        /\ plotGeneration' = id
        /\ current' = NewFlag(id)
        /\ cancelled' = [CancelCurrent EXCEPT ![id] = FALSE]
        /\ request' = [request EXCEPT ![id] = [generation |-> id, variable |-> variable]]
        /\ stage' = [stage EXCEPT ![id] = "start"]
        /\ status' = "loading"

\* (mutant) results are applied whatever their generation.
AnyGeneration(r) == TRUE

CurrentPlot(r) == r.generation = plotGeneration

\* (mutant) a failed plot leaves the status alone.
StatusIfOk(id) == IF outcome[id] = "ok" THEN "other" ELSE status

\* The plot's own status line, or "plot: <error>".
StatusAfter(id) == "other"

\* apply_remote_plot: an error keeps the previous valid plot.
DrainPlot ==
    /\ ui = "drain"
    /\ channel # <<>>
    /\ channel' = Tail(channel)
    /\ LET id == Head(channel)
       IN  IF CurrentPlot(request[id])
           THEN /\ plot' = IF outcome[id] = "ok" THEN id ELSE plot
                /\ status' = StatusAfter(id)
           ELSE UNCHANGED <<plot, status>>
    /\ UNCHANGED <<ui, overlay, variable, selections, plotGeneration, current, request,
                   stage, cancelled, outcome>>

EndDrain ==
    /\ ui = "drain"
    /\ channel = <<>>
    /\ ui' = "input"
    /\ UNCHANGED <<overlay, variable, selections, plotGeneration, plot, status, current,
                   request, stage, cancelled, outcome, channel>>

Command == ui = "input" /\ ui' = "drain" /\ UNCHANGED <<outcome, channel>>

\* OpenPlot, ActivatePoint, and the commands of the open dialog.
RefreshPlot ==
    /\ Command
    /\ overlay' = "plot"
    /\ LoadTimeSeries
    /\ UNCHANGED <<variable, selections, plot>>

\* Esc, q, or a click outside: the worker is left to run.
ClosePlot ==
    /\ Command
    /\ overlay' = "none"
    /\ UNCHANGED <<variable, selections, plotGeneration, plot, status, current, request,
                   stage, cancelled>>

\* (mutant) the open dialog lets a selection through.
AlwaysSelectable == TRUE

\* In the open dialog the selection keys cycle its axes instead.
Selectable == overlay = "none"

\* select_variable and a file switch clear the plot and leave its generation and
\* its worker alone.
ChangeSelection ==
    /\ Command
    /\ Selectable
    /\ selections < MaxSelections
    /\ selections' = selections + 1
    /\ variable' \in Variables
    /\ plot' = 0
    /\ status' = "other"
    /\ UNCHANGED <<overlay, plotGeneration, current, request, stage, cancelled>>

NoCommand ==
    /\ Command
    /\ UNCHANGED <<overlay, variable, selections, plotGeneration, plot, status, current,
                   request, stage, cancelled>>

(* --------------------------- the worker threads ------------------------ *)

\* A request cancelled before it starts sends nothing at all.
BeginPlot(id) ==
    /\ stage[id] = "start"
    /\ stage' = [stage EXCEPT ![id] = IF cancelled[id] THEN "done" ELSE "compute"]
    /\ UNCHANGED <<viewVars, request, cancelled, outcome, channel>>

\* compute_time_series returns early, with part of the series, when it sees the
\* flag; the check that follows turns that into "plot request superseded".
Compute(id) ==
    /\ stage[id] = "compute"
    /\ \E result \in {"ok", "panic"} :
         outcome' = [outcome EXCEPT
                       ![id] = IF result = "ok" /\ cancelled[id] THEN "superseded" ELSE result]
    /\ stage' = [stage EXCEPT ![id] = "send"]
    /\ UNCHANGED <<viewVars, request, cancelled, channel>>

SendPlot(id) ==
    /\ stage[id] = "send"
    /\ stage' = [stage EXCEPT ![id] = "done"]
    /\ channel' = Append(channel, id)
    /\ UNCHANGED <<viewVars, request, cancelled, outcome>>

Worker(id) == BeginPlot(id) \/ Compute(id) \/ SendPlot(id)

UI == DrainPlot \/ EndDrain \/ RefreshPlot \/ ClosePlot \/ ChangeSelection \/ NoCommand

Next == UI \/ \E id \in PlotIds : Worker(id)

Spec == Init /\ [][Next]_vars

FairSpec == Spec /\ WF_vars(UI) /\ \A id \in PlotIds : WF_vars(Worker(id))

(* ------------------------------ properties ----------------------------- *)

TypeOK ==
    /\ ui \in {"drain", "input"}
    /\ overlay \in {"none", "plot"}
    /\ variable \in Variables
    /\ selections \in 0..MaxSelections
    /\ plotGeneration \in 0..MaxPlots
    /\ plot \in 0..plotGeneration
    /\ status \in {"loading", "other"}
    /\ current = plotGeneration
    /\ request \in [PlotIds -> [generation : 0..MaxPlots, variable : Variables \cup {0}]]
    /\ stage \in [PlotIds -> {"idle", "start", "compute", "send", "done"}]
    /\ cancelled \in [PlotIds -> BOOLEAN]
    /\ outcome \in [PlotIds -> {"none", "ok", "panic", "superseded"}]
    /\ channel \in Seq(PlotIds)

\* However plots are asked for, cancelled, dropped and answered, across variable
\* and file changes, only the newest request's plot is ever put on the screen.
Latest == INSTANCE LatestAnswer WITH asked <- plotGeneration, shown <- plot
OnlyLatestShown == Latest!Spec

\* load_time_series leaves at most one computation that was not told to stop.
Live(id) == stage[id] \in {"start", "compute"} /\ ~cancelled[id]
AtMostOneLivePlot == \A a, b \in PlotIds : Live(a) /\ Live(b) => a = b

\* While the plot dialog is open, the newest plot in it is of the selected
\* variable: no selection change slips between a request and its answer.
NewestPlotIsOfSelection ==
    overlay = "plot" /\ plot = plotGeneration => request[plot].variable = variable

\* "loading plot data" is always followed by a plot or an error.
PlotResolves == []<>(status # "loading")
=============================================================================
