\* Two files of one name that are fetched at the same time.
CONSTANTS
  Urls = {u1, u2}
  Guids = {}
  Nav = Nav
  MaxCopies = 2
  MaxPolls = 1
SPECIFICATION Spec
PROPERTY NoDownloadOverwritten
\* A stopped session leaves nothing to do.
CHECK_DEADLOCK FALSE
