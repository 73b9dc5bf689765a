-------------------------- MODULE MCMemleakReport --------------------------
(* Values for model-checking the report. *)
EXTENDS MemleakReport

\* two stacks, one without frames of its own, a collision, and a stack that
\* could not be read
SomeStacks == {<<1, "main">>, <<2, NoFrames>>, <<-17, "main">>, <<-14, NoFrames>>}

\* one stack that has a trace
OneStack == {<<1, "main">>}

\* Frame pointers lead past the function that called malloc: two places in one
\* function, reached from one place, have one id and different frames.
TwoCallers == {<<1, "leak at line 7">>, <<1, "leak at line 9">>}
=============================================================================
