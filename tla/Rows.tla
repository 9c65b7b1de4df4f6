-------------------------------- MODULE Rows --------------------------------
(***************************************************************************)
(* What a commit writes.  A session keeps the rows it has read             *)
(* (expire_on_commit=False, no refresh, no lock) and its UPDATE names only *)
(* the columns whose value differs from the one it read.                   *)
(***************************************************************************)

(* Mutant: the UPDATE names every column.                                  *)
WrittenWhole(now, read, new) == new

(* The row "now" after the commit of a session that read "read" and left   *)
(* "new" in it.                                                            *)
Written(now, read, new) ==
    [c \in DOMAIN now |-> IF new[c] = read[c] THEN now[c] ELSE new[c]]
=============================================================================
