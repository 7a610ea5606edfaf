------------------------- MODULE MCInstallRequests --------------------------
\* Small instances of InstallRequests.
EXTENDS InstallRequests

CONSTANTS t1, t2, t3, nightly, c1, c2

MCReleases   == {t1, t2, t3, nightly}
MCTags       == {t1, t2, t3}
MCScriptTags == {t1, t2}
MCClients    == {c1, c2}
=============================================================================
