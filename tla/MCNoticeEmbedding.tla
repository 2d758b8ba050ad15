-------------------------- MODULE MCNoticeEmbedding --------------------------
(* Small instances of NoticeEmbedding. *)
EXTENDS NoticeEmbedding

CONSTANTS t1, t2
=============================================================================
