----------------------------- MODULE AtLeastOnce -----------------------------
(***************************************************************************)
(* What an indexer promises of a numbered stream of events: the place it   *)
(* would resume from has everything before it handled.  It may fall back   *)
(* and handle events again; it may not leave one behind.                   *)
(***************************************************************************)
EXTENDS Naturals

CONSTANT Events   \* 1 .. n

VARIABLES
  handled,  \* events recorded, or skipped on purpose
  resume    \* the last event before the place a restart resumes from; 0 at the start

Begins == handled = {} /\ resume = 0

Handle == \E e \in SUBSET Events : handled' = handled \cup e /\ UNCHANGED resume

Move ==
  \E p \in Events \cup {0} :
    /\ 1 .. p \subseteq handled
    /\ resume' = p
    /\ UNCHANGED handled

Delivers == Begins /\ [][Handle \/ Move]_<<handled, resume>>
=============================================================================
