----------------------- MODULE MCTerminalInteraction -----------------------
(* Instances of TerminalInteraction for TLC.                               *)
EXTENDS TerminalInteraction, TLC
CONSTANTS c1, c2

\* Calls, Runtimes and Keys are sets of interchangeable model values.
Symmetry == Permutations(Calls) \cup Permutations(Runtimes) \cup Permutations(Keys)
\* Every client issues every request but a wait.
Senders == [c \in Calls |-> AllKinds \ {"wait"}]

\* One client interacts and waits, the other one waits and writes from the desktop.
WaitersAndDesktop == c1 :> {"interact", "wait"} @@ c2 :> {"wait", "human"}
=============================================================================
