SPECIFICATION Spec
CONSTANTS
    Params = {":x", ":y"}
    Wild = "*"
    NoRoute <- MCNoRoute
    Routes <- MCRoutes
    Streams <- MCStreams
    MaxBody = 3
 
INVARIANT RoutedToMostSpecific
CHECK_DEADLOCK FALSE
