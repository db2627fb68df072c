SPECIFICATION FairSpec
CONSTANTS
  Pkgs = {p1, p2}
  Initially = {"installed", "outdated", "not-installed"}
  MaxFault = 2
  MaxAdmin = 1
INVARIANTS
  TypeOK PackagesPersist
PROPERTIES
  UpdateEnds 
