--------------------------- MODULE MCSearchResults ---------------------------
(* Instances of SearchResults for TLC. *)
EXTENDS SearchResults

MCPages == {0, 1}
MCDownloading == {"a"}

\* The first page has a result before the client is done, the second has none.
\* In the end both searches have the same last result.
MCResults ==
  [x \in Searches \X Ranks \X MCPages |->
     LET first == IF x[1] = 1 THEN "a" ELSE "c"
     IN IF x[3] = 0 THEN IF x[2] = 0 THEN <<first>> ELSE <<first, "b">>
        ELSE IF x[2] = 0 THEN <<>> ELSE <<"d">>]
=============================================================================
