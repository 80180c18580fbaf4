\* Two files of one bare name, a job of the web server beside a command-line scan.
CONSTANTS
  a = a
  b = b
  f1 = f1
  Files <- MCFiles
  Parsed <- MCFiles
  Names <- MCNames
  BaseName <- MCBaseName
  Symbols = {f1}
  Bodies <- MCBodies
  FileItself = FileItself
  Jobs = {j1}
  Cli = {c1}
  MaxEdits = 2
  MaxFaults = 1
  Absent = Absent
  NoJob = NoJob
SPECIFICATION FairSpec
CONSTRAINT OneRival
INVARIANTS SkippedIsIndexed ScanCatchesUp CodeEdgesAnchored
PROPERTY JobsEnd
