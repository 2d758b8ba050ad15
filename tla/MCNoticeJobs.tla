---------------------------- MODULE MCNoticeJobs ----------------------------
(***************************************************************************)
(* Model values for the instances of NoticeJobs.                           *)
(***************************************************************************)
EXTENDS NoticeJobs

CONSTANTS n1, n2, t1, b1

TwoNotices == {n1, n2}
OneTrigger == {t1}
OneBacklogSlot == {b1}
=============================================================================
