SPECIFICATION FairSpec
CONSTANTS
  Requests = {r1, r2, r3}
  Keys = {k1, k2}
  Texts = {t1}
  Voices = {v1, v2}
  Sounds = {s1, s2}
  None = None
INVARIANTS OneAssetPerKey AssetsAreServable AnnouncedOnce
PROPERTIES RecordsStand EveryRequestEnds
CHECK_DEADLOCK FALSE
