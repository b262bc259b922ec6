------------------------------- MODULE Reads -------------------------------
(***************************************************************************)
(* What is read while it is being written: the internal transactions that  *)
(* the extension stores and a client pages through (CallTrace,             *)
(* Pagination), the other lists of the API, the search of collections by   *)
(* name (CollectionCache), the status (Status), and the lists the indexer  *)
(* itself fetches from a node (RestPages).                                 *)
(*                                                                         *)
(* These share nothing but the tables they read, so a behaviour exercises  *)
(* one service and leaves the others as they start.                        *)
(***************************************************************************)
EXTENDS CallTrace, Pagination, CollectionCache, Status, RestPages

VARIABLE service

readsVars ==
  <<service, traceVars, pagingVars, searchVars, statusVars, restVars>>

ReadsInit ==
  /\ service \in {"paging", "search", "status", "node"}
  /\ PagingInit
  /\ service = "paging" \/ (endpoint = "blocks" /\ order = "ASC")
  /\ IF endpoint = "internal_txs"
     THEN TraceInit /\ rows = RowsOf(1 .. Sequence)
     ELSE traces = <<>> /\ collected = <<>>
  /\ SearchInit
  /\ StatusInit
  /\ IF service = "node" THEN RestInit ELSE RestInit /\ list = "txs" /\ items = 0

CollectCalls == Collect /\ AddCalls({r.Sequence : r \in ToSet(CollectedRows')})

ReadsNext ==
  /\ UNCHANGED service
  /\ \/ /\ service = "paging"
        /\ \/ CollectCalls
           \/ PagingNext /\ UNCHANGED traceVars
        /\ UNCHANGED <<searchVars, statusVars, restVars>>
     \/ /\ service = "search"
        /\ SearchNext
        /\ UNCHANGED <<traceVars, pagingVars, statusVars, restVars>>
     \/ /\ service = "status"
        /\ StatusNext
        /\ UNCHANGED <<traceVars, pagingVars, searchVars, restVars>>
     \/ /\ service = "node"
        /\ RestNext
        /\ UNCHANGED <<traceVars, pagingVars, searchVars, statusVars>>

ReadsSpec == ReadsInit /\ [][ReadsNext]_readsVars
=============================================================================
