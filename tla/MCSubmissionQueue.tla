------------------------- MODULE MCSubmissionQueue -------------------------
(***************************************************************************)
(* A small instance of SubmissionQueue: two submissions, the second of     *)
(* which waits behind the post of the first, and the shortest schedule     *)
(* with an entry and a longer delay after it.                              *)
(***************************************************************************)
EXTENDS SubmissionQueue

TwoSubmissions == {1, 2}
ShortSchedule  == <<1>>
=============================================================================
