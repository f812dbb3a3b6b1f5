-------------------------------- MODULE Maps --------------------------------
(* The hash maps of the code as functions: insert writes over an entry,     *)
(* remove takes one out, and a cache is read before what it caches.         *)

Put(f, k, v) == [x \in DOMAIN f \cup {k} |-> IF x = k THEN v ELSE f[x]]
Drop(f, k) == [x \in DOMAIN f \ {k} |-> f[x]]
Over(f, g) == [x \in DOMAIN f \cup DOMAIN g |-> IF x \in DOMAIN f THEN f[x] ELSE g[x]]
=============================================================================
