--------------------------- MODULE MCPackDownload ---------------------------
(* Archives for PackDownload.                                              *)
EXTENDS PackDownload

\* A file, one below a linked directory and its hard link; two files with one normalised
\* name, a hard link to the first and one to the plain file.
Links == <<0, 0, 2, 0, 0, 4, 1>>
Places == <<"a", "linked", "b", "c", "c", "d", "e">>
=============================================================================
