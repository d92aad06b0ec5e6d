---------------------------- MODULE MCPerception -----------------------------
(* Perception on frames of half the size of the model's input.               *)
EXTENDS Perception

Anchor(cx, cy, w, h, scores) == [cx |-> cx, cy |-> cy, w |-> w, h |-> h, scores |-> scores]

\* A forklift half outside the image, at its corner, or away from its edges,
\* and a person just outside, just inside or well inside its zone, on each
\* side, or narrower than a pixel.
OneAndOne ==
    {<<Anchor(fx, fy, 8, 4, <<0, 90>>), Anchor(px, py, w, 5, <<80, 20>>)>> :
        fx \in {0, 6, 16}, fy \in {0, 2, 8},
        px \in {-1, 3, 5, 7, 19, 25, 27, 28}, py \in {0, 2, 5, 12, 15}, w \in {1, 6}}

\* A forklift whose pads end in half a pixel, and a person that reaches
\* half a pixel into its zone, less or more.
HalfPads ==
    {<<Anchor(fx, fy, 10, 6, <<0, 90>>), Anchor(px, py, 6, 5, <<80, 20>>)>> :
        fx \in {6, 16}, fy \in {2, 8}, px \in {3, 5, 25, 27, 29}, py \in {2, 5, 12, 15, 18}}

\* Scores below, at and above the threshold, ties, and an unmapped class.
Scores == {<<35, 10>>, <<60, 60>>, <<40, 80>>, <<0, 0, 70>>}

\* Boxes that overlap the one before, the one after, both or none.
Crowds ==
    {<<Anchor(10, 10, 8, 8, s1), Anchor(x2, 10, 8, 8, s2),
       Anchor(x3, 12, 8, 8, s3), Anchor(30, 30, 6, 6, <<50>>)>> :
        s1 \in Scores, s2 \in Scores, s3 \in Scores,
        x2 \in {10, 12, 15}, x3 \in {10, 13, 24}}

SomeOutputs == {<<>>} \cup OneAndOne \cup HalfPads \cup Crowds
ScenesOfOutputs == {postprocess(out) : out \in SomeOutputs}
=============================================================================
