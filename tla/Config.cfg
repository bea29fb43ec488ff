\* Up to two options set, two loads.
SPECIFICATION Spec
CONSTANTS
  PluginConfig <- SomePlugin
  MaxSet = 2
  MaxLoads = 2
INVARIANTS LoadedIsValidated ReportIsExact
\* The command goes on with other things, or ends.
CHECK_DEADLOCK FALSE
