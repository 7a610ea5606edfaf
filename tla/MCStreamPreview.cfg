SPECIFICATION FairSpec
CONSTANTS
  Cameras = {c1, c2}
  Tokens = {t1, t2, t3, t4}
  NoCamera = NoCamera
  Faults = {"refused", "lost", "late", "list", "crash", "mediamtx"}
  MaxFaults = 3
INVARIANTS OnePreviewPerCamera SessionHasTimer ClosedStaysEmpty OnlyLateAddsStrand
PROPERTIES PathIsTemporary
