---------------------------- MODULE MCParquetJobs ----------------------------
(***************************************************************************)
(* An instance of ParquetJobs for TLC: two files, two clicks, a worker.     *)
(***************************************************************************)
EXTENDS ParquetJobs

(* Bounds: the loops are clicked in their order.  Once a chain has been        *)
(* started anew, only the first loop is followed, with chains of one file.   *)
Bounds ==
    /\ pc["l1"] = "new" => pc["l2"] = "new"
    /\ reingests > 0 => /\ pc["l2"] = "new"
                        /\ \E f \in Files : \A p \in Phases : chains[f][p] = 0
===============================================================================
