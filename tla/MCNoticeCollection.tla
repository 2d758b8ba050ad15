-------------------------- MODULE MCNoticeCollection --------------------------
EXTENDS NoticeCollection

Entry(source, key, title, period, class) ==
    [source |-> source, key |-> key, title |-> title, period |-> period, class |-> class]

\* Two programmes that K-Startup lists as well, in another order: passes over
\* the two portals may wait for each other.  The ministry lists nothing.
MCItem ==
    {Entry("bizinfo", 1, "A", "spring", "wanted"),
     Entry("bizinfo", 3, "B", None, "wanted"),
     Entry("kstartup", 2, "A", "spring", "wanted"),
     Entry("kstartup", 1, "B", "spring", "wanted")}
=============================================================================
