CONSTANTS
  Units = {0}
  MaxTrack = 3
  DiscTracks = 3
  NSectors = 1
  Status = {{}}
  Lens = {1}
  Wrap = 4
  SpinUp = 1
  Search = 1
  Latencies = {1}
  Periods = {1, 2}
  Ops = {"seek", "recalibrate", "senseInt", "specify", "driveStatus"}
  Media = {"none", "dsk"}
SPECIFICATION Spec
INVARIANTS SeekHasDistance
PROPERTIES QuietTickIsNoop SeekEnds
