------------------------------ MODULE ImageSlots ------------------------------
(* Pictures on terminals with a graphics protocol (render/protocol.rs, the  *)
(* drawing in ui/canvas.rs and ui/chart.rs and the redraws of the main      *)
(* loop): the map and the chart of the popup each have a slot in which a    *)
(* detached thread encodes at most one picture, asked for under a key.  The *)
(* map is asked for under view.generation, which a request for a slice      *)
(* draws, and how it is coloured; the chart under a hash of its pixels.     *)
(* A picture is what it was made of; all planes are of one size.            *)
EXTENDS Naturals

CONSTANTS Styles,       \* palette, filter, scale and borders
          MaxReads,     \* bound: slices asked for
          MaxChanges,   \* bound: other changes of what is drawn
          Nothing       \* None

ASSUME SlotAssumption == Styles # {} /\ MaxReads \in Nat /\ MaxChanges \in Nat

\* what a scale is the range of, what a map is made of and asked for, and
\* what a slot holds that is asked for keys and draws pictures
Scales   == Nat \cup {Nothing}
Maps     == [slice : Nat, scale : Scales, style : Styles]
MapKeys  == [generation : Nat, scale : Scales, style : Styles]
Series   == {0, 1}
Rasters(keys, pictures) == [key : keys, picture : pictures]
Encoders(keys, pictures) ==
    [key : keys, picture : pictures, result : {"encoding", "ok", "error", "panic"}]
Slots(keys, pictures) ==
    [image : pictures \cup {Nothing}, imageKey : keys \cup {Nothing},
     raster : Rasters(keys, pictures) \cup {Nothing},
     pending : Encoders(keys, pictures) \cup {Nothing}, disabled : BOOLEAN]
Screens(pictures) == {[how |-> "cells"], [how |-> "blank"]} \cup [how : {"image"}, of : pictures]

ASSUME NothingAssumption ==
    /\ Nothing \notin Nat /\ Nothing \notin Maps /\ Nothing \notin MapKeys
    /\ Nothing \notin Rasters(MapKeys, Maps) /\ Nothing \notin Rasters(Series, Series)
    /\ Nothing \notin Encoders(MapKeys, Maps) /\ Nothing \notin Encoders(Series, Series)

VARIABLES place,       \* "map" or "chart": the slot that is followed
          generation,  \* view.generation
          reading,     \* the newest read has not been answered
          slice,       \* the slice held: the generation it was read for
          limits,      \* view.limits: the slice they are the range of
          style,       \* of the map
          popup, series,  \* the plot popup is open; its series
          changes,     \* bound only
          dirty,       \* main loop: something to draw
          slot,        \* graphics or chart_graphics
          screen       \* what the last draw left in this place

mapVars   == <<generation, reading, slice, limits, style>>
chartVars == <<popup, series>>
slotVars  == <<place, mapVars, chartVars, changes, dirty, slot, screen>>

Slot == [image |-> Nothing, imageKey |-> Nothing, raster |-> Nothing, pending |-> Nothing,
         disabled |-> FALSE]

\* cycle_filter, reset_filter and retire_overlay
Forget(s) == [Slot EXCEPT !.disabled = s.disabled]

Cells   == [how |-> "cells"]
Blank   == [how |-> "blank"]
Image(p) == [how |-> "image", of |-> p]

-----------------------------------------------------------------------------
\* GraphicsRenderer

Awaits(s, key) == s.pending # Nothing /\ s.pending.key = key

\* Mutant: what an encoder made is shown as what is asked for now.
FinishAny(s, key) ==
    IF s.pending = Nothing \/ s.pending.result = "encoding" THEN s
    ELSE [s EXCEPT !.pending = Nothing, !.image = s.pending.picture, !.imageKey = key]

\* finish_pending: a picture is taken only under the key it was asked for
Finish(s, key) ==
    CASE s.pending = Nothing \/ s.pending.result = "encoding" -> s
      [] OTHER ->
         [s EXCEPT !.pending = Nothing,
                   !.image = IF s.pending.key = key /\ s.pending.result = "ok"
                             THEN s.pending.picture ELSE @,
                   !.imageKey = IF s.pending.key = key /\ s.pending.result = "ok" THEN key ELSE @,
                   !.disabled = @ \/ (s.pending.key = key /\ s.pending.result # "ok")]

Encode(s) ==
    [s EXCEPT !.raster = Nothing,
              !.pending = [key |-> s.raster.key, picture |-> s.raster.picture,
                           result |-> "encoding"]]

\* render_cached: it begins to encode the raster, if it has the right one
Started(s, key) ==
    IF s.disabled \/ s.imageKey = key \/ s.pending # Nothing THEN s
    ELSE IF s.raster = Nothing \/ s.raster.key # key THEN [s EXCEPT !.raster = Nothing]
    ELSE Encode(s)

\* breaks: the terminal refuses the picture
Shown(s, key, breaks) ==
    IF s.disabled \/ (s.imageKey # key /\ s.pending = Nothing)
    THEN [slot |-> s, drawn |-> Cells]
    ELSE IF s.image = Nothing THEN [slot |-> s, drawn |-> Blank]
    ELSE IF breaks
    THEN [slot |-> [s EXCEPT !.image = Nothing, !.imageKey = Nothing, !.disabled = TRUE],
          drawn |-> Cells]
    ELSE [slot |-> s, drawn |-> Image(s.image)]

RenderCached(s, key) ==
    {Shown(e, key, breaks) : breaks \in BOOLEAN,
                             e \in {Started(f, key) : f \in {Finish(s, key)}}}

\* Mutant: no raster is made while any picture is being encoded.
NeededIfIdle(s, key) == s.imageKey # key /\ s.pending = Nothing

Needed(s, key) == s.imageKey # key /\ ~Awaits(s, key)

\* a raster that is encoded, or being encoded, is of no more use
Settled(r, key) ==
    IF r.slot.imageKey = key \/ Awaits(r.slot, key) THEN [r EXCEPT !.slot.raster = Nothing] ELSE r

\* render_with_key: the raster is made only for a key that has none
RenderWithKey(s, key, picture) ==
    LET made == Needed(s, key) /\ (s.raster = Nothing \/ s.raster.key # key)
        with == IF made THEN [s EXCEPT !.raster = [key |-> key, picture |-> picture]] ELSE s
    IN  IF s.disabled THEN {[slot |-> s, drawn |-> Cells]}
        ELSE {Settled(r, key) : r \in RenderCached(with, key)}

\* render: the key is the picture itself
Render(s, picture) ==
    IF s.disabled THEN {[slot |-> s, drawn |-> Cells]}
    ELSE IF Needed(s, picture)
    THEN RenderCached([s EXCEPT !.raster = [key |-> picture, picture |-> picture]], picture)
    ELSE {[r EXCEPT !.slot.raster = Nothing] : r \in RenderCached(s, picture)}

-----------------------------------------------------------------------------
\* What is to be drawn

Scale == IF limits = Nothing THEN slice ELSE limits
Picture == [slice |-> slice, scale |-> Scale, style |-> style]
\* map_render_key
MapKey == [generation |-> generation, scale |-> Scale, style |-> style]

Unshown ==
    /\ place \in {"map", "chart"}
    /\ generation = 1 /\ reading = TRUE
    /\ slice = Nothing /\ limits = Nothing
    /\ style \in Styles
    /\ popup = FALSE /\ series = 0 /\ changes = 0
    /\ slot = Slot
    /\ screen = Blank

SlotInit == Unshown /\ dirty = TRUE

\* load_selected: a new generation is drawn and a slice is read for it
Navigate ==
    /\ place = "map"
    /\ generation < MaxReads
    /\ generation' = generation + 1 /\ reading' = TRUE /\ dirty' = TRUE
    /\ limits' \in {limits, Nothing}
    /\ UNCHANGED <<place, slice, style, chartVars, changes, slot, screen>>

\* apply_remote_slice: the slice is held, and gives the limits if there are none
AnswerSlice ==
    /\ place = "map"
    /\ reading
    /\ reading' = FALSE /\ dirty' = TRUE
    /\ \/ /\ slice' = generation
          /\ limits' = IF limits = Nothing THEN generation ELSE limits
       \/ UNCHANGED <<slice, limits>>
    /\ UNCHANGED <<place, generation, style, chartVars, changes, slot, screen>>

Change(where) ==
    /\ place = where
    /\ changes < MaxChanges /\ changes' = changes + 1
    /\ dirty' = TRUE
    /\ UNCHANGED <<place, generation, reading, slice, limits, screen>>

\* a palette, a filter, the scale or the borders
Restyle ==
    /\ Change("map")
    /\ style' \in Styles \ {style}
    /\ UNCHANGED <<chartVars, slot>>

\* cycle_filter, unless rendering is scientific
CycleFilter ==
    /\ Change("map")
    /\ slot' = Forget(slot)
    /\ UNCHANGED <<style, chartVars>>

TogglePopup ==
    /\ Change("chart")
    /\ popup' = ~popup
    /\ UNCHANGED <<style, series, slot>>

\* accept_plot: any series, one that was there before included
AcceptPlot ==
    /\ Change("chart")
    /\ series' \in {0, 1} \ {series}
    /\ UNCHANGED <<style, popup, slot>>

\* has_pending_image
Pending == slot.pending # Nothing

\* Mutant: the loop draws only what has changed.
DrawIsDueWhenDirty == dirty

DrawIsDue == dirty \/ Pending

\* what terminal.draw may come to; a closed popup has no slot
Drawn ==
    IF place = "map"
    THEN IF slice = Nothing THEN {[slot |-> slot, drawn |-> Blank]}
         ELSE RenderWithKey(slot, MapKey, Picture)
    ELSE IF popup THEN Render(slot, series)
         ELSE {[slot |-> Forget(slot), drawn |-> Blank]}

Draw ==
    /\ DrawIsDue
    /\ dirty' = FALSE
    /\ \E d \in Drawn : slot' = d.slot /\ screen' = d.drawn
    /\ UNCHANGED <<place, mapVars, chartVars, changes>>

\* the encoder sends the picture or an error, or panics without either
EncoderEnds ==
    /\ Pending /\ slot.pending.result = "encoding"
    /\ \E r \in {"ok", "error", "panic"} : slot' = [slot EXCEPT !.pending.result = r]
    /\ UNCHANGED <<place, mapVars, chartVars, changes, dirty, screen>>

SlotNext ==
    \/ Navigate \/ AnswerSlice \/ Restyle \/ CycleFilter \/ TogglePopup \/ AcceptPlot
    \/ Draw \/ EncoderEnds

\* the main loop redraws every frame budget; an encoder is a running thread
SlotFairness == WF_slotVars(Draw) /\ WF_slotVars(EncoderEnds)

SlotSpec == SlotInit /\ [][SlotNext]_slotVars /\ SlotFairness

-----------------------------------------------------------------------------
SlotTypeOK ==
    /\ generation \in Nat /\ reading \in BOOLEAN
    /\ slice \in Scales /\ limits \in Scales /\ style \in Styles
    /\ popup \in BOOLEAN /\ series \in Series /\ changes \in Nat
    /\ dirty \in BOOLEAN
    /\ \/ place = "map" /\ slot \in Slots(MapKeys, Maps) /\ screen \in Screens(Maps)
       \/ place = "chart" /\ slot \in Slots(Series, Series) /\ screen \in Screens(Series)

(* Cells are drawn in the place of a picture only after the terminal or an  *)
(* encoder failed: whatever is asked for while another picture is encoded,  *)
(* there is never a flash of cells in between (render_cached).              *)
NeverFlashesCells == screen = Cells => slot.disabled

(* When drawing has come to rest the chart is that of the series held,      *)
(* whatever was shown or encoded for the popup before (render).             *)
ChartIsOfSeries ==
    ~dirty /\ ~Pending /\ place = "chart" /\ popup => screen \in {Image(series), Cells}

Arrived ==
    \/ slot.disabled
    \/ place = "map" /\ (slice = Nothing \/ slot.imageKey = MapKey)
    \/ place = "chart" /\ (~popup \/ slot.imageKey = series)

(* Drawing comes to a picture asked for under the current key, or to cells: *)
(* what an encoder made is always picked up (has_pending_image).            *)
PictureArrives == dirty ~> ~dirty /\ Arrived

(* protocol.rs: "a caller-owned visual-state key.  The map can therefore    *)
(* retain its raster": when drawing has come to rest, the map is that of    *)
(* the slice held.                                                          *)
MapIsOfSlice ==
    ~dirty /\ ~Pending /\ place = "map" /\ slice # Nothing =>
      screen \in {Image(Picture), Cells}
=============================================================================
