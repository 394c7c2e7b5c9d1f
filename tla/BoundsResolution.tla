-------------------------- MODULE BoundsResolution --------------------------
(***************************************************************************)
(* "Set view bounds" (src/app.rs: ApplyViewBounds, CancelViewBounds,       *)
(* accept_view_bounds; src/main.rs: the resolver threads and bounds_rx).   *)
(* Typed bounds are resolved to row and column indices by a detached       *)
(* thread; the answer is matched by `bounds_generation` and, when it is    *)
(* accepted, becomes the zoom and is read.  There is no cancellation flag. *)
(***************************************************************************)
EXTENDS Naturals, Sequences, FiniteSets

CONSTANTS
    Variables,      \* names of variables; every file has them all
    Files,          \* sources the user can switch to
    Inputs,         \* kinds of command the user issues
    MaxResolvers,   \* bound: resolver threads
    MaxGeneration,  \* bound: bounds generations drawn for one file
    MaxSwitches     \* bound: file switches

ASSUME BoundsAssumption ==
    MaxResolvers \in Nat /\ MaxGeneration \in Nat /\ MaxSwitches \in Nat

VARIABLES
    ui,         \* "drain" or "input", as in the other loaders
    file,       \* the active file
    variable,   \* selected_variable
    planes,     \* axis changes made to the selected variable since it was selected
    overlay,    \* "bounds", "palette" or "none"
    draft,      \* the dialog whose draft is open, 0 for none (a serial number)
    drafts,     \* dialogs opened so far
    generation, \* bounds_generation
    zoom,       \* the request whose answer is the zoom, 0 for the full view
    loads,      \* what the last load_selected was for: its zoom
    request,    \* what each resolver resolves
    pending,    \* resolvers still running
    channel,    \* bounds_tx/bounds_rx: <<id, succeeded>>
    switches,   \* file switches made (specification only)
    dismissed   \* requests whose dialog was left by a click, covered by the command
                \* palette or closed by another answer (specification only)

vars == <<ui, file, variable, planes, overlay, draft, drafts, generation, zoom, loads,
          request, pending, channel, switches, dismissed>>

Issued == DOMAIN request

Init ==
    /\ ui = "drain"
    /\ file \in Files
    /\ variable \in Variables
    /\ planes = 0
    /\ overlay = "none"
    /\ draft = 0
    /\ drafts = 0
    /\ generation = 0
    /\ zoom = 0
    /\ loads = 0
    /\ request = <<>>
    /\ pending = {}
    /\ channel = <<>>
    /\ switches = 0
    /\ dismissed = {}

(* ------------------------------- threads ------------------------------- *)

\* resolve_source_bounds_with_feedback returns, fails or panics, then sends.
Resolve(id) ==
    /\ id \in pending
    /\ pending' = pending \ {id}
    /\ \E succeeded \in BOOLEAN : channel' = Append(channel, <<id, succeeded>>)
    /\ UNCHANGED <<ui, file, variable, planes, overlay, draft, drafts, generation, zoom,
                   loads, request, switches, dismissed>>

(* ------------------------------ the UI thread -------------------------- *)

\* (mutant) answers are applied whatever their generation.
AnyGeneration(id) == TRUE

CurrentBounds(id) == request[id].generation = generation

\* The requests whose answer is still wanted.
Awaited == {id \in Issued : CurrentBounds(id)}

\* (mutant) the accepted bounds are not read.
NeverLoads(z, o) == loads

\* The main loop reads after an answer if a zoom is set outside the dialog.
LoadsAfterBounds(z, o) == IF z # 0 /\ o # "bounds" THEN z ELSE loads

\* accept_view_bounds: a success becomes the zoom and closes the dialog, an
\* error is shown in the draft.
DrainBounds ==
    /\ ui = "drain"
    /\ channel # <<>>
    /\ channel' = Tail(channel)
    /\ LET id == Head(channel)[1]
           ok == Head(channel)[2]
       IN  IF ~CurrentBounds(id)
           THEN UNCHANGED <<zoom, draft, overlay, loads, dismissed>>
           ELSE /\ zoom' = IF ok THEN id ELSE zoom
                /\ draft' = IF ok THEN 0 ELSE draft
                /\ overlay' = IF ok /\ overlay = "bounds" THEN "none" ELSE overlay
                /\ loads' = LoadsAfterBounds(zoom', overlay')
                /\ dismissed' = IF ok THEN dismissed \cup (Awaited \ {id}) ELSE dismissed
    /\ UNCHANGED <<ui, file, variable, planes, drafts, generation, request, pending, switches>>

EndDrain ==
    /\ ui = "drain"
    /\ channel = <<>>
    /\ ui' = "input"
    /\ UNCHANGED <<file, variable, planes, overlay, draft, drafts, generation, zoom, loads,
                   request, pending, channel, switches, dismissed>>

Command(kind) ==
    /\ kind \in Inputs
    /\ ui = "input"
    /\ ui' = "drain"
    /\ UNCHANGED channel

\* (mutant) the bounds generation is not advanced.
SameGeneration == generation

NextBoundsGeneration == generation + 1

OpenViewBounds ==
    /\ Command("open")
    /\ overlay \in {"none", "palette"}
    /\ drafts < MaxResolvers
    /\ overlay' = "bounds"
    /\ draft' = drafts + 1
    /\ drafts' = drafts + 1
    /\ UNCHANGED <<file, variable, planes, generation, zoom, loads, request, pending, switches, dismissed>>

\* Enter, with four valid numbers typed.
ApplyViewBounds ==
    /\ Command("apply")
    /\ overlay = "bounds"
    /\ Len(request) < MaxResolvers
    /\ generation < MaxGeneration
    /\ generation' = NextBoundsGeneration
    /\ request' = Append(request,
         [generation |-> generation', file |-> file, variable |-> variable,
          planes |-> planes, draft |-> draft, switch |-> switches])
    /\ pending' = pending \cup {Len(request) + 1}
    /\ UNCHANGED <<file, variable, planes, overlay, draft, drafts, zoom, loads, switches, dismissed>>

\* Esc.
CancelViewBounds ==
    /\ Command("cancel")
    /\ overlay = "bounds"
    /\ generation < MaxGeneration
    /\ generation' = NextBoundsGeneration
    /\ draft' = 0
    /\ overlay' = "none"
    /\ UNCHANGED <<file, variable, planes, drafts, zoom, loads, request, pending, switches, dismissed>>

\* A click on the close button or outside the dialog is Command::Quit.
ClickOutside ==
    /\ Command("click")
    /\ overlay # "none"
    /\ overlay' = "none"
    /\ draft' = 0
    /\ dismissed' = dismissed \cup Awaited
    /\ UNCHANGED <<file, variable, planes, drafts, generation, zoom, loads, request, pending,
                   switches>>

\* Ctrl-P opens the palette over the dialog and leaves the draft behind.
OpenCommandPalette ==
    /\ Command("palette")
    /\ overlay' = "palette"
    /\ dismissed' = dismissed \cup Awaited
    /\ UNCHANGED <<file, variable, planes, draft, drafts, generation, zoom, loads, request,
                   pending, switches>>

\* select_variable, from the keyboard or through the palette, then load_selected.
SelectVariable ==
    /\ Command("variable")
    /\ overlay # "bounds"
    /\ generation < MaxGeneration
    /\ overlay' = "none"
    /\ variable' \in Variables
    /\ planes' = 0
    /\ generation' = NextBoundsGeneration
    /\ zoom' = 0
    /\ loads' = 0
    /\ UNCHANGED <<file, draft, drafts, request, pending, switches, dismissed>>

\* The wheel over the sidebar selects a variable beneath the dialog or the palette.
ScrollBeneath ==
    /\ Command("wheel")
    /\ overlay # "none"
    /\ generation < MaxGeneration
    /\ variable' \in Variables
    /\ planes' = 0
    /\ generation' = NextBoundsGeneration
    /\ zoom' = 0
    /\ loads' = 0
    /\ UNCHANGED <<file, overlay, draft, drafts, request, pending, switches, dismissed>>

\* (mutant) changing the axes keeps the zoom of the old plane.
ZoomKept == zoom

\* The zoom goes with the old plane.
ZoomAfterAxes == 0

\* SetAxes, through the axis selector, then load_selected.
SetAxes ==
    /\ Command("axes")
    /\ overlay # "bounds"
    /\ planes < MaxGeneration
    /\ overlay' = "none"
    /\ planes' = planes + 1
    /\ zoom' = ZoomAfterAxes
    /\ loads' = ZoomAfterAxes
    /\ UNCHANGED <<file, variable, draft, drafts, generation, request, pending, switches, dismissed>>

\* PreviousFile / NextFile: a default state for the new file, bounds generation 0.
SwitchFile ==
    /\ Command("file")
    /\ overlay = "none"
    /\ switches < MaxSwitches
    /\ switches' = switches + 1
    /\ file' \in Files
    /\ variable' \in Variables
    /\ planes' = 0
    /\ draft' = 0
    /\ generation' = 0
    /\ zoom' = 0
    /\ loads' = 0
    /\ UNCHANGED <<overlay, drafts, request, pending, dismissed>>

NoCommand ==
    /\ ui = "input"
    /\ ui' = "drain"
    /\ UNCHANGED <<file, variable, planes, overlay, draft, drafts, generation, zoom, loads,
                   request, pending, channel, switches, dismissed>>

UI ==
    \/ DrainBounds \/ EndDrain \/ NoCommand \/ OpenViewBounds \/ ApplyViewBounds
    \/ CancelViewBounds \/ ClickOutside \/ OpenCommandPalette \/ SelectVariable
    \/ ScrollBeneath \/ SetAxes \/ SwitchFile

Next == UI \/ \E id \in Issued : Resolve(id)

Spec == Init /\ [][Next]_vars

(* ------------------------------ properties ----------------------------- *)

TypeOK ==
    /\ ui \in {"drain", "input"}
    /\ file \in Files
    /\ variable \in Variables
    /\ planes \in 0..MaxGeneration
    /\ overlay \in {"none", "bounds", "palette"}
    /\ draft \in 0..drafts
    /\ drafts \in 0..MaxResolvers
    /\ generation \in 0..MaxGeneration
    /\ zoom \in 0..Len(request)
    /\ loads \in 0..Len(request)
    /\ Len(request) <= MaxResolvers
    /\ pending \subseteq Issued
    /\ channel \in Seq(Issued \X BOOLEAN)
    /\ Len(channel) + Cardinality(pending) <= Len(request)
    /\ switches \in 0..MaxSwitches
    /\ dismissed \subseteq Issued

\* Between two file switches, a zoom is only ever applied to the file and the
\* variable its bounds were resolved for, however late the answer comes: row and
\* column numbers mean nothing in another one (accept_view_bounds).
ZoomIsOfSelection ==
    zoom # 0 /\ request[zoom].switch = switches =>
        request[zoom].variable = variable /\ request[zoom].file = file

\* What is read is what is zoomed to, outside the dialog.
ZoomIsRead == overlay # "bounds" => loads = zoom

\* Unless its dialog was left in another way, a zoom never lands on axes it was not
\* resolved for: Esc draws a generation, and the other ways out of the dialog
\* change the axes only after it.
ZoomIsOfPlane ==
    zoom # 0 /\ request[zoom].switch = switches /\ zoom \notin dismissed =>
        request[zoom].planes = planes

\* With the same exception, an answer closes only the dialog it was asked from,
\* never a later one the user is typing in.
AnswerClosesItsDialog ==
    [][DrainBounds /\ draft # 0 /\ draft' = 0 =>
        LET id == Head(channel)[1]
        IN  \/ request[id].draft = draft
            \/ request[id].switch # switches
            \/ id \in dismissed]_vars
=============================================================================
