---------------------------- MODULE MCIngestion ----------------------------
(* Values for the model checking of Ingestion: two files with the same rows *)
(* in the opposite order, one that repeats a row and one that is not valid. *)
EXTENDS Ingestion

Crossed ==
    {<< <<"m1", "t1">>, <<"m2", "t1">> >>, << <<"m2", "t1">>, <<"m1", "t1">> >>,
     << <<"m1", "t1">>, <<"m1", "t1">>, <<"m1", "t2">> >>, << <<"m1", "t1">>, <<"m2", "invalid">> >>}
=============================================================================
