SPECIFICATION Spec
CONSTANTS
  PrinterCfg = printer
  Files = {printer, macros}
  Others = {"old"}
  Transports = {"http", "ssh"}
  Faults = {"stop", "query", "read"}
  Tries = 1
  MaxSaves = 1
  MaxPushes = 2
INVARIANTS CalibrationKept OverwrittenIsBackedUp
PROPERTY CompleteIsLoaded
