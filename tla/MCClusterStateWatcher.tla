---------------------- MODULE MCClusterStateWatcher ----------------------
(***************************************************************************)
(* Model checking of ClusterStateWatcher on small instances.               *)
(***************************************************************************)
EXTENDS ClusterStateWatcher

\* The readers whose discovery requests may fail.
AllReaders == Readers
PollOnly   == {"poll"}
NoReader   == {}
=============================================================================
