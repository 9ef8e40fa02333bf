------------------------------ MODULE MCTuning ------------------------------
(* The stream ids are none and one of the old format: id 6 with root code  *)
(* 131072, which is gold code 1.                                           *)
EXTENDS Tuning

MCStreamIds == {NO_STREAM_ID_FILTER, 131072 * 256 + 6}
=============================================================================
