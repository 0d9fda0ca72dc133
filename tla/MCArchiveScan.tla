--------------------------- MODULE MCArchiveScan ---------------------------
(* An archive of three entries and one of two that may be nested in it and *)
(* in itself, with every choice of entries, scanned with no nesting, with  *)
(* one level and with the default of two.                                  *)
EXTENDS ArchiveScan

MCArchive == {"outer", "nested", "corrupt"}

E(kind, size, inner) == [kind |-> kind, size |-> size, readable |-> TRUE, inner |-> inner]

MCEntries ==
  {E("dir", 0, "corrupt"), E("file", 0, "corrupt"), E("file", 2, "corrupt"), E("file", 3, "corrupt"),
   E("archive", 1, "nested"), E("archive", 1, "corrupt"),
   [E("file", 1, "corrupt") EXCEPT !.readable = FALSE]}

MCContents ==
  {[a \in MCArchive |-> CASE a = "outer" -> o [] a = "nested" -> n [] OTHER -> <<>>] :
     o \in [1 .. 3 -> MCEntries], n \in [1 .. 2 -> MCEntries] \cup {<<>>}}

MCDepths == {-1, 0, 1}
=============================================================================
