---------------------------- MODULE MCPlotLoading ---------------------------
(* What is computed for the screen and what is drawn of it, as a sum: a     *)
(* behaviour loads plots (PlotLoading), draws pictures (ImageSlots) or      *)
(* points at one of the maps below (MapCells), the other parts stay as they *)
(* began.                                                                   *)
EXTENDS PlotLoading, ImageSlots, MapCells

CONSTANTS temp, wind

TwoVariables == {temp, wind}
TwoStyles == {"viridis", "plasma"}

Plane(rows, cols, flip, finer) == [rows |-> rows, cols |-> cols, flip |-> flip, finer |-> finer]
\* more rows than a panel has, more columns than its pixels, and fewer
FourPlanes == {Plane(5, 3, TRUE, 1), Plane(2, 9, FALSE, 1), Plane(2, 2, TRUE, 2),
               Plane(3, 2, TRUE, 3)}
TwoCanvases == {[w |-> 2, h |-> 3], [w |-> 2, h |-> 1]}

VARIABLE part

sumVars == <<vars, slotVars, cellVars, part>>

NoPlots    == Init /\ variable = temp
NoPictures == Unshown /\ dirty = FALSE /\ place = "map" /\ style = "viridis"
NoMap      == MapInit /\ plane = Plane(5, 3, TRUE, 1) /\ inner = [w |-> 2, h |-> 3] /\ graphics

SumInit ==
    \/ part = "plots" /\ Init /\ NoPictures /\ NoMap
    \/ part = "pictures" /\ SlotInit /\ NoPlots /\ NoMap
    \/ part = "cells" /\ MapInit /\ NoPlots /\ NoPictures

Plots(A)    == part = "plots" /\ A /\ UNCHANGED <<slotVars, cellVars, part>>
Pictures(A) == part = "pictures" /\ A /\ UNCHANGED <<vars, cellVars, part>>
OnCells(A)  == part = "cells" /\ A /\ UNCHANGED <<vars, slotVars, part>>

SumFairness ==
    /\ WF_sumVars(Plots(UI)) /\ \A id \in PlotIds : WF_sumVars(Plots(Worker(id)))
    /\ WF_sumVars(Pictures(Draw))
    /\ WF_sumVars(Pictures(EncoderEnds))

SumSpec ==
    SumInit /\ [][Plots(Next) \/ Pictures(SlotNext) \/ OnCells(MapNext)]_sumVars /\ SumFairness
=============================================================================
