CONSTANTS
  Units = {0}
  MaxTrack = 1
  DiscTracks = 1
  NSectors = 2
  Status = {{}, {"de"}, {"cm"}}
  Lens = {0, 1, 2}
  Wrap = 4
  SpinUp = 1
  Search = 2
  Latencies = {1, 2}
  Periods = {1}
  Ops = {"read", "write", "format", "readId", "readDeleted", "seek", "invalid"}
  Media = {"none", "dsk", "flux"}
SPECIFICATION Spec
INVARIANTS ResultHasBytes BytesAddUp
PROPERTIES CommandEnds
