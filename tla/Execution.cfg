SPECIFICATION Spec
PROPERTIES
    CommandIsAccountedFor
    PluginAttemptIsWhole
    BacklogIsScanned
CHECK_DEADLOCK FALSE
