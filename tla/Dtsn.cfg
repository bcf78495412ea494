SPECIFICATION DtsnFairSpec
INVARIANT DtsnTypeOK
PROPERTIES DioTriggers RouteComes
