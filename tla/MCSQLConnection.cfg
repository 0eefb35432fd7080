SPECIFICATION Spec
CONSTANTS
  Connections = {s1, s2, s3}
  Handles = {h1, h2, h3}
  Files = {f1, f2}
  NoHandle = NoHandle
  NoFile = NoFile
INVARIANT IInv
PROPERTY LostOnlyByReopening
SYMMETRY Symmetry
