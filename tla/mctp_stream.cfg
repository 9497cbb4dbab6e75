\* Messages of up to six fragments, enough of them for the tags to repeat, and as
\* many losses in a row as the sequence numbers can tell apart.
SPECIFICATION Spec
CONSTANTS
  Messages = 18
  Size <- Lengths
  MaxLoss = 3
INVARIANTS
  OnlyWhatWasSent
  IntactIsDelivered
