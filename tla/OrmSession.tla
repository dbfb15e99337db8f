------------------------------ MODULE OrmSession ------------------------------
(***************************************************************************)
(* What a SQLAlchemy session does with one column of a row it has loaded.  *)
(* The routes load a row with a plain SELECT (no FOR UPDATE, no version    *)
(* column), change attributes of the object in memory and commit.  The     *)
(* flush inside commit writes only the columns whose value differs from    *)
(* the value that was loaded, so a commit is a merge: a column the request *)
(* changed overwrites whatever is in the database by then, a column it     *)
(* left alone keeps whatever another transaction put there meanwhile.      *)
(***************************************************************************)

\* The value a column has after the flush: now is its value in the database,
\* loaded the value the session read, mine the value the session holds.
Flushed(now, loaded, mine) == IF mine # loaded THEN mine ELSE now

=============================================================================
