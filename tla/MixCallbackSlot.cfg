\* Two control threads race each other and the audio thread; three publications
\* let one be playing, one be parked and one be waiting at the same time.
SPECIFICATION FairSpec
CONSTANTS
  Threads = {t1, t2}
  MaxStores = 3
INVARIANTS
  TypeOK
  AudioNeverFrees
PROPERTIES
  NoResurrection
  TakesEffect
  ImplementsHandover
