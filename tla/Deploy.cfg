SPECIFICATION Spec
CONSTANTS
  P = P
  M = M
  N = N
  W = W
  Names <- MCNames
  Root = P
  Extras <- MCExtras
  Repo <- MCRepo
  Absent = Absent
  Libs = {"fan", "wifi"}
  MaterialCfg = W
  MaterialText <- MCMaterial
  Vendor <- MCVendor
  Has = {"extras", "systemd", "nginx", "screen", "ffmpeg", "port", "gcc", "client"}
  Printers <- MCPrinters
  Commands <- MCCommands
  Faults = {"preflight", "unclear", "stop", "refuse", "ignored"}
  MaxCommands = 2
INVARIANTS SectionsHaveExtras NginxLoads
PROPERTIES PreflightFirst NoPrintDisturbed SuccessIsComplete
