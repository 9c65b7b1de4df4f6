---------------------------- MODULE MCEmailPoll ----------------------------
(***************************************************************************)
(* Instances of EmailPoll for TLC: the first mail, which is always below   *)
(* the baseline, has no Message-ID; the others have one each.  Several     *)
(* copies of one mail are left to the proofs.                              *)
(***************************************************************************)
EXTENDS EmailPoll, TLC

CONSTANTS hello, other, w1, w2

MCIdOf == [u \in Uid |-> IF u = 1 THEN NoId ELSE IF u = 2 THEN hello ELSE other]
=============================================================================
