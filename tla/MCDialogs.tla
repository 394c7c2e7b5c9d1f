----------------------------- MODULE MCDialogs -----------------------------
(* Which dialog takes a key or a click (Dialogs), or what a click on a cell *)
(* of the terminal does (Screen), as a sum: the other part stays as it was. *)
(* Dialogs has two variables of the files and a formula between them.       *)
EXTENDS Dialogs, Screen, TLC

FileVariables == {1, 3}
OneFormula == {2}
MapAndSection == {"map", "section"}
\* The word typed narrows the list to one name, then to none.
OneWord == (0 :> {1, 2, 3}) @@ (1 :> {3}) @@ (2 :> {})
RoleAxes == [n \in {1, 2, 3} |-> "map"]
\* The names of the dimensions of 3 suggest another pair than their roles.
NameAxes == [n \in {1, 2, 3} |-> IF n = 3 THEN "section" ELSE "map"]
TwoLevels == [n \in {1, 2, 3} |->
                 [p \in MapAndSection |-> IF p = "map" /\ n # 2 THEN 2 ELSE 1]]
ThreeVariables == {1, 2, 3}
NoFormula == {}
ShortNames == [n \in {1, 2, 3} |-> 1]
OneLongName == (1 :> 1) @@ (2 :> 2) @@ (3 :> 1)

\* All boxes of the sidebar, the usual size, and one too small for a dialog.
ThreeTerminals == {[w |-> 64, h |-> 56], [w |-> 70, h |-> 24], [w |-> 50, h |-> 14]}

VARIABLE part

sumVars == <<vars, screenVars, part>>

NoScreen ==
    /\ ScreenInit
    /\ terminal = CHOOSE t \in Terminals : TRUE
    /\ screen.levels = CHOOSE n \in Lengths : TRUE

SumInit ==
    \/ part = "dialogs" /\ Init /\ NoScreen
    \/ part = "screen" /\ Init /\ ScreenInit
       /\ view.variable = CHOOSE n \in Files : TRUE

OfDialogs == part = "dialogs" /\ Next /\ UNCHANGED <<screenVars, part>>
OnScreen  == part = "screen" /\ ScreenNext /\ UNCHANGED <<vars, part>>

SumSpec == SumInit /\ [][OfDialogs \/ OnScreen]_sumVars
=============================================================================
