SPECIFICATION FairSpec
CONSTANTS
  Procs = {"w1", "r1", "r2", "r3", "b1"}
  Writers = {"w1"}
  Readers = {"r1", "r2", "r3", "b1"}
  Bypassers = {"b1"}
  Stages = {"stable", "promote"}
  Modes = {"freeze"}
  Keys = {"k1", "k2"}
  KeysOf <- Rotating
  KeyOf <- SignRotating
  Configured = {"w1", "r1", "r2", "r3"}
  MaxWrites = 2
  MaxCrashes = 1
INVARIANTS ReadAuthentic SoloCallHeals
PROPERTY ReadersAgree
