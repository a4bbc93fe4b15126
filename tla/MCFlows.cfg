\* The bounded numbers of rows and notifications come to an end.
CHECK_DEADLOCK FALSE
CONSTANTS
  Offered <- MCOffered
  Shapes <- MCShapes
  MaxRows = 2
  ExportServiceClient = TRUE
  GenerateClientMetric = TRUE
  Receivers = {1, 2}
  MaxSent = 3
  MaxDisruptions = 2
SPECIFICATION MCSpec
INVARIANT RowsConserved
PROPERTIES
  Flushed
  DeliveredOnce
