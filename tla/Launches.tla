------------------------------- MODULE Launches -------------------------------
(* The program over several launches on the same files: a thread opens each *)
(* file and may fail, the view starts with the earliest file that opened or *)
(* with what the session file says, commands change it, and quitting        *)
(* overwrites the session file in place - truncate, then write - while the  *)
(* program may die at any step (run, storage/session.rs).  Files are        *)
(* numbered as on the command line.  Differences, lazy collections, filters *)
(* (ApplyFilter changes no selection), formulas and bounds given on the     *)
(* command line, and a second instance with the same session file are left  *)
(* out.                                                                     *)
EXTENDS Viewport, FiniteSets

CONSTANTS Files,        \* the files on the command line
          Has,          \* file |-> its numeric variables
          Preference,   \* variable |-> rank in select_initial_variable
          Derived,      \* the variable of a formula
          Operand,      \* the variable it is computed from
          Torn,         \* content that does not parse
          Frames,       \* view |-> the views of its timeline in other files
          Labellings,   \* bound: which files may have time labels
          MaxLaunches,  \* bound
          MaxCommands   \* bound: launch |-> commands

ASSUME FileAssumption ==
    Cardinality(Files) \in Nat \ {0} /\ Files = 1 .. Cardinality(Files)
ASSUME LabelAssumption == Labellings \subseteq SUBSET Files
ASSUME FrameAssumption ==
    \A v \in Views : Frames[v] \subseteq {u \in Views : VariableOf[u] = VariableOf[v]}
ASSUME HasAssumption ==
    \A f \in Files :
      /\ IsFiniteSet(Has[f]) /\ Derived \notin Has[f]
      /\ \A x \in Has[f] : Preference[x] \in Nat

VARIABLES phase,     \* "off", "loading", "viewing" or "saving"
          loader,    \* file |-> "opening", "opened" or "failed"
          labelled,  \* files whose time labels can be read
          file,      \* active_file
          defined,   \* the formula is defined
          saved,     \* the session file: Nothing, Torn or a session
          launches, commands

launchVars == <<view, phase, loader, labelled, file, defined, saved, launches, commands>>

Opened == {f \in Files : loader[f] = "opened"}

VariablesOf(f) ==
    IF f \in Opened
    THEN Has[f] \cup (IF defined /\ Operand \in Has[f] THEN {Derived} ELSE {})
    ELSE {}

\* collection_variables
Collected(formula) ==
    UNION {Has[f] : f \in Opened}
      \cup {x \in {Derived} : formula /\ \E f \in Opened : Operand \in Has[f]}

Lowest(S) == CHOOSE f \in S : \A g \in S : f <= g

\* Mutant: a file that failed is as early as its name says.
EarliestNamed == IF labelled # {} THEN Lowest(labelled) ELSE Lowest(Files)

\* earliest_source_index: files with labels first, the labels in file order
Earliest == IF Opened \cap labelled # {} THEN Lowest(Opened \cap labelled) ELSE Lowest(Files)

\* select_initial_variable, on the axes the active file gives the variable
InitialView(f, known) ==
    IF known = {} \/ f \notin Opened THEN Absent
    ELSE DefaultView(f, CHOOSE x \in known : \A y \in known : Preference[x] >= Preference[y])

IsSession(content) == content # Nothing /\ content # Torn

LaunchInit ==
    /\ ViewInit(Absent, {})
    /\ phase = "off" /\ file = Lowest(Files) /\ defined = FALSE
    /\ loader = [f \in Files |-> "opening"]
    /\ labelled \in Labellings
    /\ saved = Nothing
    /\ launches = 0 /\ commands = 0

-----------------------------------------------------------------------------
\* Loading

Launch ==
    /\ phase = "off" /\ launches < MaxLaunches
    /\ phase' = "loading" /\ launches' = launches + 1
    /\ UNCHANGED <<view, loader, labelled, file, defined, saved, commands>>

\* Finished is sent and received; a panicking loader sends its failure as well
Loader(f) ==
    /\ phase = "loading" /\ loader[f] = "opening"
    /\ \E to \in {"opened", "failed"} : loader' = [loader EXCEPT ![f] = to]
    /\ UNCHANGED <<view, phase, labelled, file, defined, saved, launches, commands>>

\* Mutant: a file that fails is not counted as heard.
AllOpened == \A f \in Files : loader[f] = "opened"

Finished == \A f \in Files : loader[f] \in {"opened", "failed"}

\* the fields of a session that load_session and apply_to bring back
Restored == IF IsSession(saved) THEN saved
            ELSE [file |-> Earliest, zoom |-> Nothing, limits |-> Nothing, point |-> Nothing]

(* All loaders were heard and one file opened: the variables are those of   *)
(* the earliest file, the active file, window, limits and point those of    *)
(* the session; the variable is then the initial one, not the saved one.    *)
OpenView ==
    /\ phase = "loading" /\ Finished /\ Opened # {}
    /\ phase' = "viewing"
    /\ file' = Restored.file
    /\ listed' = IF Earliest \in Opened THEN Has[Earliest] ELSE {}
    /\ selection' = InitialView(Restored.file, listed')
    /\ zoom' = Restored.zoom /\ limits' = Restored.limits /\ point' = Restored.point
    /\ drag' = Nothing /\ image' = Nothing /\ defined' = FALSE
    /\ Load
    /\ UNCHANGED <<loader, labelled, saved, launches, commands>>

\* the process ends and takes its view with it
End ==
    /\ phase' = "off" /\ commands' = 0
    /\ selection' = Absent /\ listed' = {} /\ reading' = FALSE
    /\ zoom' = Nothing /\ limits' = Nothing /\ point' = Nothing
    /\ drag' = Nothing /\ image' = Nothing
    /\ file' = Lowest(Files) /\ defined' = FALSE
    /\ loader' = [f \in Files |-> "opening"]
    /\ UNCHANGED <<labelled, launches>>

\* no file opened, or 'q' while loading: the session file is left alone
EndLoading == phase = "loading" /\ End /\ UNCHANGED saved

-----------------------------------------------------------------------------
\* Viewing

Command == phase = "viewing" /\ commands < MaxCommands[launches] /\ commands' = commands + 1

OnView ==
    /\ Command
    /\ \/ OnImage
       \/ \E x \in listed : SelectVariable(file, x)
       \/ ResetVariableView
       \/ \E v \in Views : SetAxes(v)
    /\ UNCHANGED <<phase, loader, labelled, file, defined, saved, launches>>

\* a new state for the neighbouring file
SwitchFile(delta) ==
    /\ Command
    /\ file' = Clamp(file + delta, 1, Cardinality(Files))
    /\ listed' = VariablesOf(file')
    /\ selection' = InitialView(file', listed')
    /\ zoom' = Nothing /\ limits' = Nothing /\ point' = Nothing
    /\ drag' = Nothing /\ image' = Nothing
    /\ Load
    /\ UNCHANGED <<phase, loader, labelled, defined, saved, launches>>

(* A move in time or a tick of playback reaches a frame of another file: it *)
(* becomes the active one, and the window, the limits and the point stay.   *)
StepToFile(v) ==
    /\ Command
    /\ selection \in Views /\ v \in Frames[selection] /\ FileOf[v] \in Opened
    /\ file' = FileOf[v]
    /\ selection' = v
    /\ Load
    /\ UNCHANGED <<listed, Measured, drag, image, phase, loader, labelled, defined, saved, launches>>

\* apply_formula_changes selects the new variable, in the file that has it
DefineFormula ==
    /\ Command
    /\ Derived \in Collected(TRUE)
    /\ defined' = TRUE
    /\ file' = IF file \in Opened /\ Operand \in Has[file] THEN file
               ELSE Lowest({f \in Opened : Operand \in Has[f]})
    /\ NewSelection(DefaultView(file', Derived), Collected(TRUE))
    /\ UNCHANGED <<phase, loader, labelled, saved, launches>>

\* the formula is removed, and if it was selected something else is
RemoveFormula ==
    /\ Command
    /\ defined
    /\ defined' = FALSE
    /\ IF selection \in Views /\ VariableOf[selection] = Derived
       THEN FallBack(InitialView(file, Collected(FALSE)), Collected(FALSE))
       ELSE listed' = Collected(FALSE)
            /\ UNCHANGED <<selection, Measured, drag, image, reading>>
    /\ UNCHANGED <<phase, loader, labelled, file, saved, launches>>

ReadEnds ==
    /\ phase = "viewing"
    /\ Answered \/ ReadFailed
    /\ UNCHANGED <<phase, loader, labelled, file, defined, saved, launches, commands>>

-----------------------------------------------------------------------------
\* Saving

\* SessionState::capture
Captured == [file |-> file, zoom |-> zoom, limits |-> limits, point |-> point]

\* fs::write truncates the file ...
Quit ==
    /\ phase = "viewing"
    /\ phase' = "saving" /\ saved' = Torn
    /\ UNCHANGED <<view, loader, labelled, file, defined, launches, commands>>

\* ... and writes
Write ==
    /\ phase = "saving"
    /\ saved' = Captured
    /\ End

Crash == phase # "off" /\ End /\ UNCHANGED saved

LaunchNext ==
    \/ Launch \/ (\E f \in Files : Loader(f)) \/ OpenView \/ EndLoading
    \/ OnView \/ (\E delta \in {-1, 1} : SwitchFile(delta)) \/ (\E v \in Views : StepToFile(v))
    \/ DefineFormula \/ RemoveFormula
    \/ ReadEnds
    \/ Quit \/ Write \/ Crash

\* the loaders run, and the loading loop goes on as soon as it may
LaunchFairness ==
    /\ \A f \in Files : WF_launchVars(Loader(f))
    /\ WF_launchVars(OpenView)
    /\ WF_launchVars(EndLoading /\ Finished /\ Opened = {})

LaunchSpec == LaunchInit /\ [][LaunchNext]_launchVars /\ LaunchFairness

-----------------------------------------------------------------------------
(* A window measured on the plane that is read lies in it, so its read can  *)
(* succeed: whatever is dragged, panned, turned, transposed, saved and      *)
(* restored (bounds_with_row_flip, Pan, permuted_axes, apply_to).           *)
WindowFits ==
    selection \in Views /\ zoom # Nothing /\ zoom.of = selection
      => Inside(zoom.window, selection)

Foreign ==
    /\ selection \in Views
    /\ \/ zoom # Nothing /\ zoom.of # selection
       \/ point # Nothing /\ point.of # selection
       \/ limits # Nothing /\ limits.of # VariableOf[selection]

OldImage == image # Nothing /\ image.of # selection

(* What was measured on one selection is not applied to another, except by  *)
(* a command on an image that is still the old one, by a restored session   *)
(* (run selects the initial variable after apply_to), by removing the       *)
(* selected formula (apply_formula_changes) and by a step to a frame of     *)
(* another file, where the same variable keeps what was measured of it.     *)
ForeignOnlyByName ==
    [][Foreign' => \/ Foreign \/ (OldImage /\ OnView) \/ RemoveFormula
                   \/ (\E v \in Views : StepToFile(v))
                   \/ (OpenView /\ IsSession(saved))]_launchVars

(* A launch that opened a file starts with a read of it, although others    *)
(* failed or a crash tore the session file.  Except: no file has time       *)
(* labels and the first one failed, or the session restores a file that     *)
(* failed or does not have the variables of the earliest one                *)
(* (earliest_source_index, run).                                            *)
StartsWithAnImage ==
    phase = "viewing" /\ commands = 0 =>
      \/ selection \in Views
      \/ Opened \cap labelled = {} /\ Lowest(Files) \notin Opened
      \/ file # Earliest /\ ~(listed \subseteq VariablesOf(file))

(* Loading ends, with a view or with the errors of all files, however many  *)
(* loaders fail or panic (the loading loop of run).                         *)
LoadingEnds == []<>(phase # "loading")
=============================================================================
