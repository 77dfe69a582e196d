------------------------------- MODULE MCDgoLoad -------------------------------
(* Headers of two units and pages of three: over all files of up to four      *)
(* objects of one to three units, headers and objects meet the ends of pages  *)
(* in every way (a header in two pages, an object that ends with a page, one  *)
(* that spans three).                                                         *)
EXTENDS DgoLoad

WithOneMore(files) == {Append(f, f[Len(f)] + 2 + size) : f \in files, size \in 1 .. 3}
One   == WithOneMore({<<2>>})
Two   == WithOneMore(One)
Three == WithOneMore(Two)
SmallFiles == One \cup Two \cup Three \cup WithOneMore(Three)
NotFound   == {<<2, 6>>}
================================================================================
