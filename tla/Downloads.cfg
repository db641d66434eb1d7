\* Two downloads of Chrome that may poll at the same time and a file that both
\* fetching detectors find; the code looks at the directory four times.
CONSTANTS
  Urls = {u1}
  Guids = {g1, g2}
  Nav = Nav
  MaxCopies = 1
  MaxPolls = 2
SPECIFICATION Spec
INVARIANTS TypeOK DownloadedAtMostTwice NamedDownloadTracked
 
\* A stopped session and finished downloads leave nothing to do.
CHECK_DEADLOCK FALSE
