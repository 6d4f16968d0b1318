CONSTANTS
  Param = param
  Star = star
  NoOrigin = none
  ServerOrigin = server
  first = first
  second = second
  evil = evil
  OptionsPath <- ThePath
  Catalogue <- Routes
  MaxRoutes = 2
  Chains <- SomeChains
  AllowOrigins <- SomeOrigins
  Requests <- Asked
SPECIFICATION Spec
INVARIANTS TypeOK RoutedAsRegistered Onion OnlyAllowedOrigins
CHECK_DEADLOCK FALSE
