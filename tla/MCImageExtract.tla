--------------------------- MODULE MCImageExtract ---------------------------
(* Two layers of up to two entries on the paths a, d and d/x.  Of the      *)
(* entries ignored or refused, one of each kind is enough: nothing else of *)
(* them is looked at.                                                      *)
EXTENDS ImageExtract

MCPath == {"a", "d", "d/x"}
MCAbove == [p \in MCPath |-> IF p = "d/x" THEN {"d"} ELSE {}]

E(type, path, size) == [type |-> type, path |-> path, size |-> size]

MCEntries ==
  {E("file", p, n) : p \in MCPath, n \in {1, 2}}
    \cup {E("whiteout", p, 1) : p \in MCPath}
    \cup {E("file", "a", 3), E("opaque", "d", 1), E("other", "a", 1), E("unsafe", "a", 1)}
=============================================================================
