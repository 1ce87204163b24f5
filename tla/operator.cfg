SPECIFICATION OperatorSpec
CONSTANTS
    JobSpecs <- MCJobSpecs
    MaxGeneration = 2
    MaxApiErrors = 1
    ClusterSpecs <- MCClusterSpecs
    MaxClusterGeneration = 2
    MaxClusterErrors = 1
PROPERTIES JobConverges NoOrphan ClusterConverges
CHECK_DEADLOCK FALSE
