---------------------------- MODULE EventMatching ----------------------------
(***************************************************************************)
(* Which event types a trigger filter lets through.  An event type is a    *)
(* sequence of tokens, e.g. <<"call", "ended">>; a pattern is such a       *)
(* sequence (the stem) with a flag saying whether it was written with a    *)
(* trailing "*".  A filter is the set of its patterns.                     *)
(***************************************************************************)
EXTENDS Naturals, Sequences

Pattern(Token) == [stem: Seq(Token), star: BOOLEAN]

StartsWith(type, stem) ==
    /\ Len(stem) <= Len(type)
    /\ SubSeq(type, 1, Len(stem)) = stem

(* A filter without patterns is open: it accepts every event. *)
EventMatchesTrigger(type, filter) ==
    \/ filter = {}
    \/ \E p \in filter :
          \/ ~p.star /\ type = p.stem
          \/ p.star /\ StartsWith(type, p.stem)
=============================================================================
