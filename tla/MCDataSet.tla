----------------------------- MODULE MCDataSet ------------------------------
(***************************************************************************)
(* Instances of DataSet with data as long as a pointer; one row ends with  *)
(* the greatest int, so that the block added behind it has a negative one  *)
(* for an index.                                                           *)
(***************************************************************************)
EXTENDS DataSet

MCRows == {<<20, 3>>, <<1, 127>>}
MCVersion == <<90, 91, 92, 93>>
=============================================================================
