\* Two images of one archive, and two flushes that may come between any two
\* steps, with jobs still queued.
CONSTANTS
  a1 = a1
  k1 = k1
  k2 = k2
  Images = {k1, k2}
  Archives = {a1}
  ArchiveOf <- Packed
  Flushes = 2
SPECIFICATION FairSpec
INVARIANT StateTellsData
INVARIANT DecodedOnce
PROPERTY LoadingEnds
