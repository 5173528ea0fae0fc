----------------------------- MODULE MCHistoryImport -----------------------------
(* The database comes in two blocks, the ZIP in one.                        *)
EXTENDS HistoryImport

MCChunks == [u \in Uploads |-> IF u \in DbUploads THEN 2 ELSE 1]
=============================================================================
