------------------------------ MODULE MCCircuit ------------------------------
(* Small instances of Circuit. *)
EXTENDS Circuit, TLC

OnlyViewer == (Viewer :> 1) @@ (Simulator :> 0)
ViewerTwice == (Viewer :> 2) @@ (Simulator :> 0)

\* Bounds per host, the viewer's and the simulator's.
None == (Viewer :> 0) @@ (Simulator :> 0)
OnlySimulator == (Viewer :> 0) @@ (Simulator :> 1)
=============================================================================
