------------------------------ MODULE MCVoice ------------------------------
(***************************************************************************)
(* Instances of Voice: two agents, of whom one has no presence row, two    *)
(* calls of one caller, two jobs at a time and any number in a row.        *)
(***************************************************************************)
EXTENDS Voice, TLC

CONSTANTS ann, bob, pat, sid1, sid2, j1, j2

MCCallerOf == [c \in Call |-> pat]
Cases == {{sid1, sid2, "unclear"}, {sid1, "recording", "unclear"}, {sid1, "assign", "dial"},
          {sid1, "presence", "unclear"}, {sid1, "identity"}, {sid1, "resolve", "toQueue"},
          {sid1, "resolve", "assign"}}
Symmetry == Permutations(Job)
=============================================================================
