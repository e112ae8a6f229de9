----------------------------- MODULE MCSftpPut -----------------------------
(* Plans for SftpPut: a file, another one twice, and a link.               *)
EXTENDS SftpPut

CONSTANTS f1, f2, f3

TwiceAndLink == <<f1, f2, f2, f3>>
=============================================================================
