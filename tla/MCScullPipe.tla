----------------------------- MODULE MCScullPipe -----------------------------
(* Instances of ScullPipe for TLC.                                         *)
EXTENDS ScullPipe, TLC

CONSTANTS r1, w1, x1

Flags(modes, nonblock) == [mode : modes, nonblock : nonblock]

OpensPair == (r1 :> Flags({"r"}, {FALSE}) \cup Flags({"rw"}, {TRUE})) @@ (w1 :> Flags({"w"}, {FALSE}))

OpensProper == (r1 :> Flags({"r"}, BOOLEAN)) @@ (w1 :> Flags({"w"}, {FALSE})) @@ (x1 :> Flags({"r", "w"}, {FALSE}))

OpensSplit == (r1 :> Flags({"r"}, BOOLEAN)) @@ (w1 :> Flags({"w"}, BOOLEAN))

OpensPlain == (r1 :> Flags({"r"}, {FALSE})) @@ (w1 :> Flags({"w"}, {FALSE})) @@ (x1 :> Flags({"rw"}, {TRUE}))
==============================================================================
