----------------------------- MODULE UnitOfWork -----------------------------
(***************************************************************************)
(* How the ORM session the backend opens per HTTP request (get_db) writes  *)
(* a row back.  A handler SELECTs the row, assigns attributes, commits;    *)
(* the UPDATE that commit sends names only the columns whose assigned      *)
(* value differs from the value that was loaded.  Two requests that loaded *)
(* the same row and assign different columns therefore both take effect,   *)
(* and a column assigned the value it was loaded with is not written at    *)
(* all, even if another request has changed it in the meantime.            *)
(***************************************************************************)

(* The stored value of one column after the flush of a row. *)
Flush(loaded, assigned, stored) ==
  IF assigned # loaded THEN assigned ELSE stored

=============================================================================
