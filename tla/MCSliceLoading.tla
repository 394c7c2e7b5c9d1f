--------------------------- MODULE MCSliceLoading ---------------------------
(* Small collections for SliceLoading. *)
EXTENDS SliceLoading

CONSTANTS temp, wind, box

AllVariables == {temp, wind}

\* Two files, three frames interleaved in time; both files have both variables.
SameEverywhere == [s \in 0..1 |-> AllVariables]
\* wind is only in the first file.
WindInFirst == (0 :> AllVariables) @@ (1 :> {temp})
FavouriteTemp == [s \in 0..1 |-> temp]
InterleavedLabels == (0 :> <<1, 3>>) @@ (1 :> <<2>>)
OneBox == {box}
\* wind has no displayable plane.
TempOnly == [s \in 0..1 |-> {temp}]
=============================================================================
