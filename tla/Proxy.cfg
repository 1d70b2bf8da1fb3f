SPECIFICATION Spec
CONSTANTS
  Numbers = {3, 4, 5}
  MaxBytes = 2
INVARIANTS DescriptorsAreOwn EverythingForwarded FrameOutlivesEchoes
PROPERTIES ClosedBeforeEnd OneEndEndsBoth
