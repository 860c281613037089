\* A router with the collector, two readers and a screen, or fed by the sync.
SPECIFICATION FairSpec
CONSTANTS
  Readers = {r1, r2}
  Refreshes = {f1, f2}
  Syncs = {s1, s2}
  Feeds = {"none", "sync", "stats"}
  MaxVersion = 1
  MaxWatchers = 1
  MaxOverruns = 1
INVARIANTS TypeOK OneReadAtATime
PROPERTIES SnapshotNeverGoesBack KeepsBeingCollected KeepsBeingSynced
