-------------------------- MODULE MCForkliftSystem --------------------------
(* ForkliftSystem on a few configuration files of up to three cameras.      *)
EXTENDS ForkliftSystem

Entry(shown, n) == [enable_viewer |-> shown, workers |-> n]
File(b, v, cams) == [readable |-> TRUE, backend |-> b, viewer |-> v, cameras |-> cams]

\* Cameras in the viewer and not; the viewer off or left out, with and
\* without a worker; a stub backend; no camera; a file that cannot be read.
SampleFiles ==
    {File("onnxruntime", TRUE, <<Entry(TRUE, 1), Entry(Absent, Absent), Entry(TRUE, 2)>>),
     File(Absent, FALSE, <<Entry(TRUE, 1)>>),
     File(Absent, Absent, <<Entry(TRUE, 0), Entry(FALSE, 2)>>),
     File("tensorrt", TRUE, <<Entry(TRUE, 1)>>),
     File("onnxruntime", TRUE, <<>>),
     [File(Absent, Absent, <<Entry(FALSE, 1)>>) EXCEPT !.readable = FALSE]}
=============================================================================
