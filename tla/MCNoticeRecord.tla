---------------------------- MODULE MCNoticeRecord ----------------------------
EXTENDS NoticeRecord

Answer(source, start, end, words, tags, files, key) ==
    [source |-> source, start |-> start, end |-> end, words |-> words, tags |-> tags,
     files |-> files, key |-> key, recruiting |-> None, years |-> {}, prestartup |-> FALSE]

\* Bizinfo: a period that is extended and whose file is replaced; wording in
\* place of days.  K-Startup: with and without business years.  MSIT: files.
MCItem ==
    {Answer("bizinfo", 2, 2, {}, {"Seoul", "Jeonnam", "Gwangju", "Export"}, {"f1", "f2"}, "fund"),
     Answer("bizinfo", 2, 3, {}, {"SeoulCity", "JeonnamGwangju"}, {"f2"}, "fund"),
     Answer("bizinfo", None, None, {"rolling"}, {"Nationwide", "Seoul"}, {"f1"}, "loan"),
     Answer("bizinfo", 1, None, {"closed", "rolling"}, {}, {}, "fund"),
     Answer("bizinfo", None, None, {}, {"Gwangju"}, {}, "fund"),
     Answer("msit", None, None, {}, {}, {"f1"}, None),
     Answer("msit", None, None, {}, {}, {"f1", "f2"}, None)}
  \cup {[Answer("kstartup", 1, 2, {}, {"Seoul"}, {}, "fund")
             EXCEPT !.recruiting = "Y", !.years = {3, 7}],
        [Answer("kstartup", None, 2, {}, {"Jeonnam", "Seoul"}, {}, "loan")
             EXCEPT !.recruiting = "N", !.prestartup = TRUE],
        Answer("kstartup", 2, None, {}, {"Nationwide"}, {}, None)}
=============================================================================
