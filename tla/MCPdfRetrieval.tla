--------------------------- MODULE MCPdfRetrieval ---------------------------
(***************************************************************************)
(* PdfRetrieval with the rows that the searcher's queries return: one chunk that everybody   *)
(* of its tenant may read, one for a group, and an asker of that group.                          *)
(***************************************************************************)
EXTENDS PdfRetrieval

Chunk(groups, all) ==
    [kind |-> "chunk", tenant |-> "t", doc |-> "d", acl |-> [users |-> {}, groups |-> groups, public |-> all], tokens |-> 2]
Chunks == [c1 |-> Chunk({}, TRUE), c2 |-> Chunk({"g"}, FALSE)]
NearestFirst == [q |-> <<"c1", "c2">>]
Asker == {[query |-> "q", tenant |-> "t", user |-> "u", groups |-> {"g"}, docs |-> None, entity |-> None]}

\* The fields of a chunk that the RETURN clauses of neo4j_searcher.py name.
Returned == {"chunk_id", "text", "doc_id", "page_num", "element_type", "acl"}
=============================================================================
