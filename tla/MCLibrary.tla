------------------------------ MODULE MCLibrary ------------------------------
(***************************************************************************)
(* The parts a crawl and a fetch are made of that work alone: a behaviour  *)
(* is one of the scheduler, or one input given to one of the functions of  *)
(* Library that keep no state.                                             *)
(***************************************************************************)
EXTENDS SchedulerEnv, MCDocuments, MCOptions, Library

----------------------------------------------------------------------------
(* The scheduler.  Two URLs share a fingerprint (they differ by a          *)
(* fragment), two priorities, and one request skips the filter (what a     *)
(* blocked retry looks like).                                              *)

CONSTANTS page, pageFragment, other

MCUrls == {page, pageFragment, other}
MCCanon == [u \in MCUrls |-> IF u = pageFragment THEN page ELSE u]
MCRequest(u, p, df) == [url |-> u, priority |-> p, dontFilter |-> df, retryCount |-> 0]
MCRequests == {MCRequest(page, 0, FALSE), MCRequest(pageFragment, 1, FALSE),
               MCRequest(other, 0, FALSE), MCRequest(page, 0, TRUE)}

----------------------------------------------------------------------------
(* Either *)

MCInit == Init /\ input \in {[k |-> f] : f \in LibraryFunctions \cup {"scheduler"}}
MCNext ==
    \/ input.k = "scheduler" /\ Next /\ UNCHANGED input
    \/ LibraryNext /\ UNCHANGED schedVars
MCSpec == MCInit /\ [][MCNext]_<<input, schedVars>>
=============================================================================
