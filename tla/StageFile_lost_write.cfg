SPECIFICATION Spec
CONSTANTS
  Procs = {"w1", "r1"}
  Writers = {"w1"}
  Readers = {"r1"}
  Bypassers = {}
  Stages = {"stable", "promote"}
  Modes = {}
  Keys = {"k1"}
  KeysOf <- OneKey
  KeyOf <- SignK1
  Configured = {"w1", "r1"}
  MaxWrites = 1
  MaxCrashes = 0
PROPERTY WriteIsAtomic
