SPECIFICATION EntropySpec
CONSTANTS
  Platforms = {"getrandom_carry"}
  Lengths = {0, 1, 5, 6, 9}
  Errnos = {4, 14}
  CHUNK = 4
  MaxSecure = 8
  MaxDrawn = 16
INVARIANTS OkMeansFilled
