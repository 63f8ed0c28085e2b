---------------------------- MODULE MCLifecycle ----------------------------
(***************************************************************************)
(* Two producers, in one process or in two, for model checking Lifecycle.  *)
(***************************************************************************)
EXTENDS Lifecycle

CONSTANTS first, other \* processes

With(process, overwrite, valid) == [process |-> process, overwrite |-> overwrite, valid |-> valid]

MCGiven == {
  << With(first, FALSE, TRUE), With(first, TRUE, TRUE) >>,
  << With(first, TRUE, TRUE), With(other, FALSE, FALSE) >>,
  << With(first, FALSE, FALSE), With(other, FALSE, TRUE) >> }
=============================================================================
