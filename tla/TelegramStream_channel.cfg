\* Two clients, two telegrams and a byte of noise on each connection.
SPECIFICATION Spec
CONSTANTS
  Clients = {c1, c2}
  c1 = c1
  c2 = c2
  Telegrams <- MCTelegrams
  Noise <- MCNoise
  Chunks = {1, 13}
  MaxBytes <- MCMaxBytes
INVARIANTS
  TypeOK
PROPERTIES
  ImplementsChannel
