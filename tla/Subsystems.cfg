\* All subsystems; those that imply others do not fail.
SPECIFICATION SubSpec
CONSTANTS
  Failing = {"events", "timer", "haptic", "sensor"}
  MaxFlags = 3
  MaxUses = 3
INVARIANTS
  Balanced
  
