SPECIFICATION SteerSpec
CONSTANTS
  Bytes = {0, 80, 111, 144, 145, 255}
  Scalars = {90, 255}
  Digital = {0, 4, 32, 128}
INVARIANT TurnsAsSteered
